---- MODULE Spec2Model ----
(***************************************************************************)
(* Cuckoo / Cuckaroo edge trimmer (miner/libcuckoo/src/cuda/trimmer.cu).    *)
(*                                                                         *)
(* The device kernels are modelled thread by thread: every atomic          *)
(* operation, every global or shared store and every __syncthreads() is a  *)
(* step of its own, so that all schedules of the threads of a launch are   *)
(* explored.  The geometry (XBITS, YBITS, ZBITS, capacities, word width)   *)
(* is scaled down; the code is otherwise followed statement by statement.  *)
(***************************************************************************)
EXTENDS Integers, Sequences, FiniteSets, TLC

VARIABLES
  graph,      \* the edge of every nonce under sipkeys (a table of the hash)
  kernel,     \* the kernel of the current launch
  sipkeys,    \* siphash_keys copied to the device (k0, k1, k2, k3)
  selected,   \* edgetrimmer::selected: 0 = Cuckoo, otherwise Cuckaroo
  expand,     \* trimparams::expand
  gridDim,    \* number of thread blocks of the launch
  blockDim,   \* threads per block of the launch (tpb)
  round,      \* the round argument of Round
  tmpl,       \* the template arguments of the launched kernel
  src,        \* the source buffer of the launch, a flat array of edges
  srcIds,     \* the source index array (one counter per bucket and partition)
  dst,        \* the destination buffer of the launch, a flat array of edges
  dstIds,     \* the destination index array (indexes of Seed A and Recovery)
  ecounters,  \* __shared__ u32 ecounters[COUNTERWORDS], one array per block
  tmp,        \* __shared__ tmp[NX][2*FLUSH], one tile set per block
  counters,   \* __shared__ int counters[NX], one array per block
  destIdx,    \* __shared__ int destIdx of Tail, one per block
  nonces,     \* __shared__ u32 nonces[PROOFSIZE] of Recovery, one array per block
  recoveredges, \* __constant__ uint2 recoveredges[PROOFSIZE]
  pc,         \* per thread: the statement it executes next
  loc,        \* per thread: its local variables
  tp,         \* trimparams: blocks and tpb of the trim and tail launches
  nedges,     \* trim(): the host variable the residual count is read into
  returned,   \* history: what each completed trim() call returned and left
  input,      \* history: what the stages before the last round leave it to read
  counted,    \* history: how many Increase2bCounter calls were made per z
  wlog,       \* history: the global stores of the launch
  calls,      \* the runtime calls the host has made, in order, with their status
  host        \* the host thread: its place in trim(), the index arrays' addresses

cfgVars == <<graph, recoveredges, kernel, sipkeys, selected, expand, gridDim, blockDim, round, tmpl>>
memVars == <<src, srcIds, dst, dstIds>>
shVars == <<ecounters, tmp, counters, destIdx, nonces>>
thVars == <<pc, loc>>
hostVars == <<tp, nedges, returned, input, calls, host>>
histVars == <<counted, wlog>>
vars == <<cfgVars, memVars, shVars, thVars, hostVars, histVars>>

----------------------------------------------------------------------------
(* Geometry.  trimmer.h is not part of the sources at hand; the values are *)
(* the scaled-down ones of this model.                                     *)

XBITS == 1
YBITS == 1
ZBITS == 2
YZBITS == YBITS + ZBITS
EDGEBITS == XBITS + YBITS + ZBITS
NX == 2 ^ XBITS
NY == 2 ^ YBITS
NZ == 2 ^ ZBITS
NX2 == NX * NY
NEDGES == 2 ^ EDGEBITS
EDGEMASK == NEDGES - 1
XMASK == NX - 1
ZMASK == NZ - 1

\* The code's u32 words hold 32 bits (bucket >> 5, bucket & 0x1F, NZ/32);
\* the model's words hold 2^WORDLOG bits.
WORDLOG == 1
WORDSIZE == 2 ^ WORDLOG
COUNTERWORDS == (2 * NZ) \div WORDSIZE   \* NZ / 16 in the code: two planes

\* Bounds of the exploration.
MaxThreads == 2
MaxCalls == 3

Min(a, b) == IF a < b THEN a ELSE b

----------------------------------------------------------------------------
(* SipHash edge oracle.  The code's u64 lanes are scaled to LANEBITS bits  *)
(* (so "edge >> 32" is a shift by half a lane); SIPROUND lives in a header *)
(* that is not part of the sources at hand and follows the SipHash-2-4     *)
(* round with the rotation distances scaled alike.                         *)

LANEBITS == 2 * EDGEBITS
LANE == 2 ^ LANEBITS
HALFLANE == LANEBITS \div 2

RECURSIVE Xor(_, _)
Xor(a, b) ==
  IF a = 0 THEN b
  ELSE IF b = 0 THEN a
  ELSE (((a % 2) + (b % 2)) % 2) + 2 * Xor(a \div 2, b \div 2)

ROTL(x, b) == ((x * 2 ^ b) % LANE) + (x \div 2 ^ (LANEBITS - b))

\* One SipHash round on the four lanes x.
SipMix(x) ==
  LET a0 == (x[1] + x[2]) % LANE
      a2 == (x[3] + x[4]) % LANE
      a1 == Xor(ROTL(x[2], 2), a0)
      a3 == Xor(ROTL(x[4], 2), a2)
      b0 == ROTL(a0, HALFLANE)
      b2 == (a2 + a1) % LANE
      c0 == (b0 + a3) % LANE
      c1 == Xor(ROTL(a1, 2), b2)
      c3 == Xor(ROTL(a3, 3), c0)
      c2 == ROTL(b2, HALFLANE)
  IN  <<c0, c1, c2, c3>>

\* (The argument is bound by a set constructor so that it is evaluated once.)
SIPROUND(v) == CHOOSE r \in {SipMix(x) : x \in {v}} : TRUE

\* v3 ^= nonce; SIPROUND; SIPROUND; v0 ^= nonce; v2 ^= 0xff; SIPROUND x 4
SipAbsorb(x, nonce) == SIPROUND(SIPROUND(<<x[1], x[2], x[3], Xor(x[4], nonce)>>))
SipFinal(x, nonce) ==
  SIPROUND(SIPROUND(SIPROUND(SIPROUND(<<Xor(x[1], nonce), x[2], Xor(x[3], LANE - 1), x[4]>>))))
hash24(v, nonce) ==
  CHOOSE r \in {SipFinal(y, nonce) : y \in {SipAbsorb(x, nonce) : x \in {v}}} : TRUE

xor_lanes(v) == Xor(Xor(v[1], v[2]), Xor(v[3], v[4]))

dipnode(keys, nce, uorv) ==
  LET nonce == 2 * nce + uorv
  IN  xor_lanes(hash24(keys, nonce)) % NEDGES      \* & EDGEMASK

\* The key sets the caller may install.
MaxKey == 1
KeySets == {<<k, 2 * k, 3 * k, 4 * k>> : k \in 0 .. MaxKey}

\* dipnode, tabulated.
NodeOf == [k \in KeySets, n \in 0 .. NEDGES - 1, uorv \in 0 .. 1 |-> dipnode(k, n, uorv)]

EDGE_BLOCK_BITS == 2
EDGE_BLOCK_SIZE == 2 ^ EDGE_BLOCK_BITS
EDGE_BLOCK_MASK == EDGE_BLOCK_SIZE - 1

dipblock_StoringLast(keys, edge) ==
  LET edge0 == edge - (edge % EDGE_BLOCK_SIZE)
      state[i \in 0 .. EDGE_BLOCK_MASK] ==
        IF i = 0 THEN hash24(keys, edge0) ELSE hash24(state[i - 1], edge0 + i)
      buf == [i \in 0 .. EDGE_BLOCK_MASK |-> xor_lanes(state[i])]
  IN  <<buf, buf[EDGE_BLOCK_MASK]>>

\* dipblock: returns <<buf, last>>; buf[EDGE_BLOCK_MASK] is stored as 0.
\* state[i] is the keyed state after absorbing the nonces edge0 .. edge0 + i.
dipblock(keys, edge) ==
  LET edge0 == edge - (edge % EDGE_BLOCK_SIZE)         \* edge & ~EDGE_BLOCK_MASK
      state[i \in 0 .. EDGE_BLOCK_MASK] ==
        IF i = 0 THEN hash24(keys, edge0) ELSE hash24(state[i - 1], edge0 + i)
      buf == [i \in 0 .. EDGE_BLOCK_MASK |->
                IF i < EDGE_BLOCK_MASK
                THEN CHOOSE r \in {xor_lanes(x) : x \in {state[i]}} : TRUE
                ELSE 0]
  IN  <<buf, CHOOSE r \in {xor_lanes(x) : x \in {state[EDGE_BLOCK_MASK]}} : TRUE>>

\* dipblock, tabulated per aligned or unaligned first nonce.
BlockOf == [k \in KeySets, n \in 0 .. NEDGES - 1 |-> dipblock(k, n)]

\* The Cuckaroo edge of slot e of the block: buf[e] ^ last, split in two nodes.
BlockEdge(blk, e) ==
  CHOOSE r \in {<<edge % NEDGES, (edge \div 2 ^ HALFLANE) % NEDGES>> :
                  edge \in {Xor(blk[1][e], blk[2])}} : TRUE

----------------------------------------------------------------------------
(* Two-bit degree counters.                                                *)

\* word & mask for a one-bit mask
BitAnd1(w, mask) == ((w \div mask) % 2) * mask
\* word | mask for a one-bit mask
BitOr1(w, mask) == IF BitAnd1(w, mask) = 0 THEN w + mask ELSE w

\* Mutant: the result of atomicOr is not masked (old = atomicOr(...)).
Increase2bCounterOr0_Unmasked(ec, bucket) ==
  LET word == bucket \div WORDSIZE
      mask == 2 ^ (bucket % WORDSIZE)
  IN  <<[ec EXCEPT ![word] = BitOr1(@, mask)], ec[word]>>

\* The first atomicOr of Increase2bCounter: returns <<new array, old>>.
Increase2bCounterOr0(ec, bucket) ==
  LET word == bucket \div WORDSIZE
      bit  == bucket % WORDSIZE
      mask == 2 ^ bit
  IN  <<[ec EXCEPT ![word] = BitOr1(@, mask)], BitAnd1(ec[word], mask)>>

\* The second, conditional atomicOr of Increase2bCounter.
Increase2bCounterOr1(ec, bucket, old) ==
  LET word == bucket \div WORDSIZE
      bit  == bucket % WORDSIZE
      mask == 2 ^ bit
  IN  IF old # 0
      THEN [ec EXCEPT ![word + NZ \div WORDSIZE] = BitOr1(@, mask)]
      ELSE ec

Read2bCounter(ec, bucket) ==
  LET word == bucket \div WORDSIZE
      bit  == bucket % WORDSIZE
      mask == 2 ^ bit
  IN  BitAnd1(ec[word + NZ \div WORDSIZE], mask) # 0

\* Plane 0 is not read by the kernels; this reads it for the properties.
ReadPlane0(ec, bucket) ==
  BitAnd1(ec[bucket \div WORDSIZE], 2 ^ (bucket % WORDSIZE)) # 0

ZeroCounters == [w \in 0 .. COUNTERWORDS - 1 |-> 0]

----------------------------------------------------------------------------
(* Harness for Increase2bCounter: the threads of one block call it on      *)
(* arbitrary buckets of a zeroed bitmap, in any interleaving.              *)

Lids == 0 .. MaxThreads - 1
TotalCalls == LET S[z \in -1 .. NZ - 1] == IF z < 0 THEN 0 ELSE counted[z] + S[z - 1]
              IN  S[NZ - 1]

CounterInit ==
  /\ kernel = "Increase2bCounter"
  /\ graph = <<>>
  /\ sipkeys = <<0, 0, 0, 0>>
  /\ selected = 0
  /\ expand = 0
  /\ gridDim = 1
  /\ blockDim = MaxThreads
  /\ round = 0
  /\ tmpl = <<>>
  /\ src = <<>> /\ srcIds = <<>> /\ dst = <<>> /\ dstIds = <<>>
  /\ ecounters = [g \in {0} |-> ZeroCounters]
  /\ tmp = <<>> /\ counters = <<>> /\ nonces = <<>> /\ recoveredges = <<>> /\ destIdx = <<>>
  /\ pc = [t \in {0} \X Lids |-> "idle"]
  /\ loc = [t \in {0} \X Lids |-> [bucket |-> 0, old |-> 0]]
  /\ tp = <<>> /\ nedges = 0 /\ returned = <<>> /\ calls = <<>> /\ host = <<>> /\ input = <<>>
  /\ counted = [z \in 0 .. NZ - 1 |-> 0]
  /\ wlog = {}

\* A thread enters Increase2bCounter(ecounters, z).
CounterCall(t, z) ==
  /\ kernel = "Increase2bCounter"
  /\ pc[t] = "idle"
  /\ TotalCalls < MaxCalls
  /\ pc' = [pc EXCEPT ![t] = "or0"]
  /\ loc' = [loc EXCEPT ![t] = [bucket |-> z, old |-> 0]]
  /\ counted' = [counted EXCEPT ![z] = @ + 1]
  /\ UNCHANGED <<cfgVars, hostVars, memVars, shVars, wlog>>

\* u32 old = atomicOr(ecounters + word, mask) & mask;
CounterOr0(t) ==
  /\ kernel = "Increase2bCounter"
  /\ pc[t] = "or0"
  /\ LET r == Increase2bCounterOr0(ecounters[t[1]], loc[t].bucket)
     IN  /\ ecounters' = [ecounters EXCEPT ![t[1]] = r[1]]
         /\ loc' = [loc EXCEPT ![t].old = r[2]]
  /\ pc' = [pc EXCEPT ![t] = "or1"]
  /\ UNCHANGED <<cfgVars, hostVars, memVars, tmp, counters, nonces, destIdx, histVars>>

\* if (old) atomicOr(ecounters + word + NZ/32, mask);
CounterOr1(t) ==
  /\ kernel = "Increase2bCounter"
  /\ pc[t] = "or1"
  /\ ecounters' = [ecounters EXCEPT
                     ![t[1]] = Increase2bCounterOr1(@, loc[t].bucket, loc[t].old)]
  /\ pc' = [pc EXCEPT ![t] = "idle"]
  /\ UNCHANGED <<cfgVars, hostVars, memVars, tmp, counters, nonces, destIdx, loc, histVars>>

CounterNext ==
  \/ \E t \in DOMAIN pc, z \in 0 .. NZ - 1 : CounterCall(t, z)
  \/ \E t \in DOMAIN pc : CounterOr0(t)
  \/ \E t \in DOMAIN pc : CounterOr1(t)

SpecCounter == CounterInit /\ [][CounterNext]_vars

CounterQuiescent == \A t \in DOMAIN pc : pc[t] = "idle"

\* C1: whatever calls were made and however their atomic steps interleaved,
\* once all calls have returned bit z of plane 0 is set iff z was counted at
\* least once and bit z of plane 1 is set iff z was counted at least twice.
C1_CounterCommutativeSaturating ==
  (kernel = "Increase2bCounter" /\ CounterQuiescent) =>
    \A z \in 0 .. NZ - 1 :
      /\ ReadPlane0(ecounters[0], z) <=> (counted[z] >= 1)
      /\ Read2bCounter(ecounters[0], z) <=> (counted[z] >= 2)

\* Three calls on one bucket and one call on a bucket of the other word have
\* all returned.
C1_Witness ==
  /\ kernel = "Increase2bCounter"
  /\ CounterQuiescent
  /\ \E z \in 0 .. NZ - 1 : counted[z] >= 2
  /\ \E z \in 0 .. NZ - 1 : counted[z] = 1
  /\ \E z \in 0 .. NZ - 1 : counted[z] = 0

----------------------------------------------------------------------------
(* Edges in device memory: packed ("uint2", a pair of nodes) or compact    *)
(* ("u32", the nonce).  The overloads of null, endpoint and make_Edge are  *)
(* selected by the edge forms of the kernel's template arguments.          *)

EDGES_A == 4
EDGES_B == 8
NA == 2
NB == 2

null(form, e) == IF form = "u32" THEN e = 0 ELSE e[1] = 0 /\ e[2] = 0

\* The edge of nonce n as the active variant defines it.
EdgeOf(keys, sel, n) ==
  IF sel = 0 THEN <<NodeOf[keys, n, 0], NodeOf[keys, n, 1]>>
  ELSE BlockEdge(BlockOf[keys, n], n % EDGE_BLOCK_SIZE)

\* The edges of all nonces below n, tabulated: graph[n + 1] is the edge of n.
RECURSIVE GraphOf(_, _, _)
GraphOf(keys, sel, n) ==
  IF n = 0 THEN <<>> ELSE Append(GraphOf(keys, sel, n - 1), EdgeOf(keys, sel, n - 1))

\* A compact edge is hashed again wherever an endpoint of it is needed
\* (dipnode(sipkeys, nonce, uorv)); graph holds these hashes.
endpoint(form, e, uorv) ==
  IF form = "u32" THEN graph[e + 1][uorv + 1]
  ELSE IF uorv # 0 THEN e[2] ELSE e[1]

make_Edge(formIn, formOut, e, node0, node1) ==
  IF formIn = "u32" /\ formOut = "uint2" THEN <<node0, node1>> ELSE e

ZeroEdge(form) == IF form = "u32" THEN 0 ELSE <<0, 0>>

\* The stored form of the edge of nonce n.
Stored(form, n) == IF form = "u32" THEN n ELSE graph[n + 1]

Threads == {t \in (0 .. gridDim - 1) \X (0 .. blockDim - 1) : TRUE}
BlockThreads(g) == {g} \X (0 .. blockDim - 1)

----------------------------------------------------------------------------
(* Round<NP, maxIn, EdgeIn, maxOut, EdgeOut>, one launch.                   *)

RoundTemplate_Round1LikeRound0(rnd, sel, exp) ==
  LET form == IF sel # 0 \/ exp = 0 THEN "uint2" ELSE "u32"
  IN  IF rnd = 0 THEN
        [NP |-> 1, maxIn |-> EDGES_A, maxOut |-> EDGES_B \div NB, EdgeIn |-> form,
         EdgeOut |-> IF sel # 0 \/ exp < 2 THEN "uint2" ELSE "u32"]
      ELSE IF rnd = 1 THEN
        [NP |-> NB, maxIn |-> EDGES_B \div NB, maxOut |-> EDGES_B \div 2, EdgeIn |-> form,
         EdgeOut |-> "uint2"]
      ELSE
        [NP |-> 1, maxIn |-> EDGES_B \div 4, maxOut |-> EDGES_B \div 4,
         EdgeIn |-> "uint2", EdgeOut |-> "uint2"]

\* The template arguments trim() gives the launch of round rnd.
\* Mutant: round 3 is given the capacity of the later rounds as its input.
RoundCapacity_Round3LikeLater(rnd, a, b) ==
  IF rnd = 0 THEN [maxIn |-> a, maxOut |-> b \div NB]
  ELSE IF rnd = 1 THEN [maxIn |-> b \div NB, maxOut |-> b \div 2]
  ELSE IF rnd = 2 THEN [maxIn |-> b \div 2, maxOut |-> a \div 4]
  ELSE [maxIn |-> b \div 4, maxOut |-> b \div 4]

\* The maxIn and maxOut template arguments of the launch of round rnd, a and
\* b being EDGES_A and EDGES_B.
RoundCapacity(rnd, a, b) ==
  IF rnd = 0 THEN [maxIn |-> a, maxOut |-> b \div NB]
  ELSE IF rnd = 1 THEN [maxIn |-> b \div NB, maxOut |-> b \div 2]
  ELSE IF rnd = 2 THEN [maxIn |-> b \div 2, maxOut |-> a \div 4]
  ELSE IF rnd = 3 THEN [maxIn |-> a \div 4, maxOut |-> b \div 4]
  ELSE [maxIn |-> b \div 4, maxOut |-> b \div 4]

RoundTemplate(rnd, sel, exp) ==
  LET cap == RoundCapacity(rnd, EDGES_A, EDGES_B)
  IN  [NP |-> IF rnd = 1 THEN NB ELSE 1,
       maxIn |-> cap.maxIn, maxOut |-> cap.maxOut,
       EdgeIn  |-> IF rnd = 0 THEN (IF sel # 0 \/ exp = 0 THEN "uint2" ELSE "u32")
                   ELSE IF rnd = 1 THEN (IF sel # 0 \/ exp < 2 THEN "uint2" ELSE "u32")
                   ELSE "uint2",
       EdgeOut |-> IF rnd = 0 THEN (IF sel # 0 \/ exp < 2 THEN "uint2" ELSE "u32")
                   ELSE "uint2"]

\* Position (i, loop) of thread t in the two scanning loops of Round:
\* const int edgesInBucket = min(srcIds[group], maxIn);
\* const int loops = (edgesInBucket + dim-1) / dim;
edgesInBucket(g, i) == Min(srcIds[i * NX2 + g], tmpl.maxIn)
lindexOf(t, lp) == lp * blockDim + t[2]
srcIndex(t, i, lp) == i * NX2 * tmpl.maxIn + tmpl.maxIn * t[1] + lindexOf(t, lp)

\* The next position at or after (i, lp) at which the thread reads an edge
\* (lindex < edgesInBucket); i = NP when both loops are over.
RECURSIVE ScanFrom(_, _, _)
ScanFrom(t, i, lp) ==
  IF i >= tmpl.NP THEN [i |-> tmpl.NP, loop |-> 0]
  ELSE IF lindexOf(t, lp) < edgesInBucket(t[1], i) THEN [i |-> i, loop |-> lp]
  ELSE ScanFrom(t, i + 1, 0)

\* The thread moves to the next edge of its scan, or to the statement after it.
Advance(t, here, after) ==
  LET nx == ScanFrom(t, loc[t].i, loc[t].loop + 1)
  IN  /\ pc' = [pc EXCEPT ![t] = IF nx.i >= tmpl.NP THEN after ELSE here]
      /\ loc' = [loc EXCEPT ![t].i = nx.i, ![t].loop = nx.loop]

\* for (int i = lid; i < COUNTERWORDS; i += dim) ecounters[i] = 0;
RoundZero(t) ==
  /\ kernel = "Round"
  /\ pc[t] = "zero"
  /\ ecounters' = [ecounters EXCEPT ![t[1]] =
                     [w \in 0 .. COUNTERWORDS - 1 |->
                        IF w % blockDim = t[2] THEN 0 ELSE @[w]]]
  /\ pc' = [pc EXCEPT ![t] = "sync1"]
  /\ UNCHANGED <<cfgVars, hostVars, memVars, tmp, counters, nonces, destIdx, loc, histVars>>

\* Mutant: the barrier lets the threads that wait at it go on as soon as one
\* of them has arrived.
RoundBarrier_NotWaiting(g, at, next, after) ==
  /\ \E t \in BlockThreads(g) : pc[t] = at
  /\ LET nx(t) == ScanFrom(t, 0, 0)
     IN  /\ pc' = [t \in DOMAIN pc |->
                     IF t[1] # g \/ pc[t] # at THEN pc[t]
                     ELSE IF nx(t).i >= tmpl.NP THEN after ELSE next]
         /\ loc' = [t \in DOMAIN loc |->
                     IF t[1] # g \/ pc[t] # at THEN loc[t]
                     ELSE [loc[t] EXCEPT !.i = nx(t).i, !.loop = nx(t).loop]]

\* A barrier of block g opens when all threads of the block wait at it; every
\* thread then starts a scan of its edges.
RoundBarrier(g, at, next, after) ==
  /\ \A t \in BlockThreads(g) : pc[t] = at
  /\ LET nx(t) == ScanFrom(t, 0, 0)
     IN  /\ pc' = [t \in DOMAIN pc |->
                     IF t[1] # g THEN pc[t]
                     ELSE IF nx(t).i >= tmpl.NP THEN after ELSE next]
         /\ loc' = [t \in DOMAIN loc |->
                     IF t[1] # g THEN loc[t]
                     ELSE [loc[t] EXCEPT !.i = nx(t).i, !.loop = nx(t).loop]]

\* The first __syncthreads().
RoundSync1(g) ==
  /\ kernel = "Round"
  /\ RoundBarrier(g, "sync1", "count", "sync2")
  /\ UNCHANGED <<cfgVars, hostVars, memVars, shVars, histVars>>

\* EdgeIn edge = __ldg(&src[index]); if (null(edge)) continue;
\* node = endpoint(sipkeys, edge, round&1); Increase2bCounter: first atomicOr
RoundCount(t) ==
  /\ kernel = "Round"
  /\ pc[t] = "count"
  /\ LET edge == src[srcIndex(t, loc[t].i, loc[t].loop)]
     IN  IF null(tmpl.EdgeIn, edge)
         THEN /\ Advance(t, "count", "sync2")
              /\ UNCHANGED <<ecounters, counted>>
         ELSE LET node == endpoint(tmpl.EdgeIn, edge, round % 2)
                  r == Increase2bCounterOr0(ecounters[t[1]], node % NZ)
              IN  /\ ecounters' = [ecounters EXCEPT ![t[1]] = r[1]]
                  /\ loc' = [loc EXCEPT ![t].bucket = node % NZ, ![t].old = r[2]]
                  /\ pc' = [pc EXCEPT ![t] = "count2"]
                  /\ UNCHANGED counted
  /\ UNCHANGED <<cfgVars, hostVars, memVars, tmp, counters, nonces, destIdx, wlog>>

\* Increase2bCounter: the second atomicOr
RoundCount2(t) ==
  /\ kernel = "Round"
  /\ pc[t] = "count2"
  /\ ecounters' = [ecounters EXCEPT
                     ![t[1]] = Increase2bCounterOr1(@, loc[t].bucket, loc[t].old)]
  /\ Advance(t, "count", "sync2")
  /\ UNCHANGED <<cfgVars, hostVars, memVars, tmp, counters, nonces, destIdx, histVars>>

\* The second __syncthreads().
RoundSync2(g) ==
  /\ kernel = "Round"
  /\ RoundBarrier(g, "sync2", "emit", "done")
  /\ UNCHANGED <<cfgVars, hostVars, memVars, shVars, histVars>>

\* const int bktIdx = min(atomicAdd(dstIds + bucket, 1), maxOut - 1);
bktIdxOf(old, maxOut) == Min(old, maxOut - 1)

\* Mutant: plane 0 is consulted, so one occurrence is enough to keep an edge.
RoundKeeps_Plane0(ec, node0) == ReadPlane0(ec, node0 % NZ)

\* if (Read2bCounter(ecounters, node0 & ZMASK))
RoundKeeps(ec, node0) == Read2bCounter(ec, node0 % NZ)

\* Mutant: the edge is sent to the bucket of the endpoint just counted.
RoundBucket_Counted(node0, node1) == node0 \div NZ

\* const int bucket = node1 >> ZBITS;
RoundBucket(node0, node1) == node1 \div NZ

\* EdgeIn edge = __ldg(&src[index]); if (null(edge)) continue;
\* if (Read2bCounter(...)) { bucket = node1 >> ZBITS; bktIdx = min(atomicAdd(..)) }
RoundEmit(t) ==
  /\ kernel = "Round"
  /\ pc[t] = "emit"
  /\ LET edge == src[srcIndex(t, loc[t].i, loc[t].loop)]
         node0 == endpoint(tmpl.EdgeIn, edge, round % 2)
         node1 == endpoint(tmpl.EdgeIn, edge, 1 - (round % 2))
         bucket == RoundBucket(node0, node1)
     IN  IF null(tmpl.EdgeIn, edge) \/ ~RoundKeeps(ecounters[t[1]], node0)
         THEN /\ Advance(t, "emit", "done")
              /\ UNCHANGED dstIds
         ELSE /\ dstIds' = [dstIds EXCEPT ![bucket] = @ + 1]
              /\ loc' = [loc EXCEPT
                           ![t].bucket = bucket,
                           ![t].bktIdx = bktIdxOf(dstIds[bucket], tmpl.maxOut),
                           ![t].edge = IF round % 2 = 1
                                       THEN make_Edge(tmpl.EdgeIn, tmpl.EdgeOut, edge, node1, node0)
                                       ELSE make_Edge(tmpl.EdgeIn, tmpl.EdgeOut, edge, node0, node1)]
              /\ pc' = [pc EXCEPT ![t] = "store"]
  /\ UNCHANGED <<cfgVars, hostVars, src, srcIds, dst, shVars, histVars>>

\* dst[bucket * maxOut + bktIdx] = make_Edge(...)
RoundStore(t) ==
  /\ kernel = "Round"
  /\ pc[t] = "store"
  /\ LET index == loc[t].bucket * tmpl.maxOut + loc[t].bktIdx
     IN  /\ dst' = IF index \in DOMAIN dst THEN [dst EXCEPT ![index] = loc[t].edge] ELSE dst
         /\ wlog' = wlog \cup {[index |-> index, n |-> 1, lost |-> 0,
                                routed |-> endpoint(tmpl.EdgeOut, loc[t].edge,
                                                    1 - (round % 2)) \div NZ,
                                again |-> \E w \in wlog : w.index = index]}
  /\ Advance(t, "emit", "done")
  /\ UNCHANGED <<cfgVars, hostVars, src, srcIds, dstIds, shVars, counted>>

RoundNext ==
  \/ \E t \in DOMAIN pc : RoundZero(t)
  \/ \E g \in 0 .. gridDim - 1 : RoundSync1(g)
  \/ \E t \in DOMAIN pc : RoundCount(t)
  \/ \E t \in DOMAIN pc : RoundCount2(t)
  \/ \E g \in 0 .. gridDim - 1 : RoundSync2(g)
  \/ \E t \in DOMAIN pc : RoundEmit(t)
  \/ \E t \in DOMAIN pc : RoundStore(t)

\* --- the launches explored ---

\* Rounds 0 .. MaxRound are launched; the source holds the edges of MaxLive
\* consecutive nonces starting at a block of nonces.
MaxRound == 3
MaxLive == 10

\* The elements of a set of numbers in ascending order.
RECURSIVE SortedSeq(_)
SortedSeq(S) ==
  IF S = {} THEN <<>>
  ELSE LET m == CHOOSE x \in S : \A y \in S : x <= y
       IN  <<m>> \o SortedSeq(S \ {m})

\* The nonces whose edge has its endpoint uorv in bucket b.
RoutedNonces(b, uorv) ==
  {n \in 0 .. NEDGES - 1 : graph[n + 1][uorv + 1] \div NZ = b}

\* The input partition of round 1 an edge is found in: the round-0 launch
\* that read it, i.e. the part of the grid its first endpoint lies in.
PartitionOf(n, np) ==
  IF np = 1 THEN 0 ELSE (graph[n + 1][1] \div NZ) \div (NX2 \div np)

\* A well-routed input of a Round launch: bucket g of partition i holds, in
\* its first slots, edges whose counted endpoint lies in bucket g, and its
\* counter tells how many edges were sent to it (possibly more than fit).
RoundSource(T, alive) ==
  LET part(i, g) == SortedSeq({n \in alive[g] : PartitionOf(n, T.NP) = i})
  IN  [buf |-> [x \in 0 .. T.NP * NX2 * T.maxIn - 1 |->
                  LET i == x \div (NX2 * T.maxIn)
                      g == (x % (NX2 * T.maxIn)) \div T.maxIn
                      k == x % T.maxIn
                  IN  IF g \in DOMAIN alive /\ k < Len(part(i, g))
                      THEN Stored(T.EdgeIn, part(i, g)[k + 1])
                      ELSE ZeroEdge(T.EdgeIn)],
       ids |-> [x \in 0 .. T.NP * NX2 - 1 |->
                  LET i == x \div NX2
                      g == x % NX2
                  IN  IF g \in DOMAIN alive THEN Len(part(i, g)) ELSE 0]]

RoundLocals(T) ==
  [i |-> 0, loop |-> 0, bucket |-> 0, old |-> 0, bktIdx |-> 0, edge |-> ZeroEdge(T.EdgeOut)]

RoundInit ==
  \E keys \in KeySets, sel \in 0 .. 1 :
    /\ sipkeys = keys /\ selected = sel
    /\ graph = GraphOf(keys, sel, NEDGES)
    /\ \E exp \in 0 .. 2, rnd \in 0 .. MaxRound, gd \in 1 .. NX2 \div NB,
          bd \in 1 .. MaxThreads, garbage \in {0, WORDSIZE ^ 2 - 1},
          lo \in {b * EDGE_BLOCK_SIZE : b \in 0 .. NEDGES \div EDGE_BLOCK_SIZE - 1} :
         LET T == RoundTemplate(rnd, sel, exp)
             window == lo .. Min(lo + MaxLive, NEDGES) - 1
             alive == [g \in 0 .. gd - 1 |-> RoutedNonces(g, rnd % 2) \cap window]
             S == RoundSource(T, alive)
         IN  /\ T.EdgeIn = "uint2" \/ sel = 0
             /\ exp = 0 \/ T # RoundTemplate(rnd, sel, exp - 1)
             /\ expand = exp /\ round = rnd
             /\ gridDim = gd /\ blockDim = bd
             /\ tmpl = T
             /\ src = S.buf
             /\ srcIds = S.ids
             /\ dst = [x \in 0 .. NX2 * T.maxOut - 1 |-> ZeroEdge(T.EdgeOut)]
             /\ dstIds = [b \in 0 .. NX2 - 1 |-> 0]
             /\ ecounters = [g \in 0 .. gd - 1 |-> [w \in 0 .. COUNTERWORDS - 1 |-> garbage]]
             /\ pc = [t \in (0 .. gd - 1) \X (0 .. bd - 1) |-> "zero"]
             /\ loc = [t \in (0 .. gd - 1) \X (0 .. bd - 1) |-> RoundLocals(T)]
    /\ kernel = "Round"
    /\ tmp = <<>> /\ counters = <<>> /\ nonces = <<>> /\ recoveredges = <<>> /\ destIdx = <<>>
    /\ tp = <<>> /\ nedges = 0 /\ returned = <<>> /\ calls = <<>> /\ host = <<>> /\ input = <<>>
    /\ counted = <<>>
    /\ wlog = {}

SpecRound == RoundInit /\ [][RoundNext]_vars


\* The live slots of source bucket g: the first min(count, maxIn) slots of
\* each of its NP partitions.
LiveSlots(g) ==
  {i * NX2 * tmpl.maxIn + tmpl.maxIn * g + k :
     i \in 0 .. tmpl.NP - 1, k \in 0 .. tmpl.maxIn - 1} \cap
  {x \in DOMAIN src :
     x % tmpl.maxIn < Min(srcIds[(x \div (NX2 * tmpl.maxIn)) * NX2 + g], tmpl.maxIn)}

\* How many non-null edges in the live slots of bucket g count node.
LiveDegree(g, node) ==
  Cardinality({x \in LiveSlots(g) :
                 /\ ~null(tmpl.EdgeIn, src[x])
                 /\ endpoint(tmpl.EdgeIn, src[x], round % 2) = node})

\* C2: an edge Round has decided to emit from bucket g, and every edge it has
\* stored, has a counted endpoint (endpoint round&1) that at least two
\* non-null edges in the live slots of its source bucket have as their
\* counted endpoint.
C2_RoundEmitsOnlyDegreeTwo ==
  kernel = "Round" =>
    /\ \A t \in DOMAIN pc :
         pc[t] = "store" =>
           LiveDegree(t[1], endpoint(tmpl.EdgeIn,
                                     src[srcIndex(t, loc[t].i, loc[t].loop)],
                                     round % 2)) >= 2
    /\ \A w \in wlog :
         LET node == endpoint(tmpl.EdgeOut, dst[w.index], round % 2)
         IN  node \div NZ < gridDim /\ LiveDegree(node \div NZ, node) >= 2

\* A launch has ended in which a bucket held more edges than the block has
\* threads, some of its edges were emitted and another was dropped.
C2_Witness ==
  /\ kernel = "Round"
  /\ \A t \in DOMAIN pc : pc[t] = "done"
  /\ wlog # {}
  /\ \E g \in 0 .. gridDim - 1 :
       /\ Cardinality(LiveSlots(g)) > blockDim
       /\ \E x \in LiveSlots(g) :
            /\ ~null(tmpl.EdgeIn, src[x])
            /\ LiveDegree(g, endpoint(tmpl.EdgeIn, src[x], round % 2)) = 1
       /\ \E x \in LiveSlots(g) :
            /\ ~null(tmpl.EdgeIn, src[x])
            /\ LiveDegree(g, endpoint(tmpl.EdgeIn, src[x], round % 2)) >= 2


----------------------------------------------------------------------------
(* Tail<maxIn>, one launch.                                                 *)

\* int myEdges = sourceIndexes[group];
myEdges(g) == srcIds[g]

\* if (lid == 0) destIdx = atomicAdd(destinationIndexes, myEdges);
TailReserve(t) ==
  /\ kernel = "Tail"
  /\ pc[t] = "reserve"
  /\ destIdx' = [destIdx EXCEPT ![t[1]] = dstIds[0]]
  /\ dstIds' = [dstIds EXCEPT ![0] = @ + myEdges(t[1])]
  /\ pc' = [pc EXCEPT ![t] = "sync"]
  /\ UNCHANGED <<cfgVars, hostVars, src, srcIds, dst, ecounters, tmp, counters, nonces, loc, histVars>>

\* __syncthreads(); for (int i = lid; i < myEdges; i += dim)
TailSync(g) ==
  /\ kernel = "Tail"
  /\ \A t \in BlockThreads(g) : pc[t] = "sync"
  /\ pc' = [t \in DOMAIN pc |->
              IF t[1] # g THEN pc[t]
              ELSE IF t[2] < myEdges(g) THEN "copy" ELSE "done"]
  /\ loc' = [t \in DOMAIN loc |-> IF t[1] # g THEN loc[t] ELSE [i |-> t[2]]]
  /\ UNCHANGED <<cfgVars, hostVars, memVars, shVars, histVars>>

\* The slot, relative to the run reserved and to the bucket, that the loop
\* body copies: destination[destIdx + lid] = source[group * maxIn + lid].
TailSlot(t) == t[2]

\* One iteration of the copying loop.  A read past the end of the source is
\* a read of whatever lies there.
TailCopy(t) ==
  /\ kernel = "Tail"
  /\ pc[t] = "copy"
  /\ \E beyond \in {ZeroEdge("uint2"), graph[1]} :
       LET from == t[1] * tmpl.maxIn + TailSlot(t)
           to == destIdx[t[1]] + TailSlot(t)
           edge == IF from \in DOMAIN src THEN src[from] ELSE beyond
       IN  /\ from \in DOMAIN src => beyond = graph[1]
           /\ dst' = IF to \in DOMAIN dst THEN [dst EXCEPT ![to] = edge] ELSE dst
           /\ wlog' = wlog \cup {[index |-> to, n |-> 1, lost |-> 0, routed |-> t[1],
                                   again |-> \E w \in wlog : w.index = to]}
  /\ loc' = [loc EXCEPT ![t].i = @ + blockDim]
  /\ pc' = [pc EXCEPT ![t] = IF loc[t].i + blockDim < myEdges(t[1]) THEN "copy" ELSE "done"]
  /\ UNCHANGED <<cfgVars, hostVars, src, srcIds, dstIds, shVars, counted>>

TailDone == kernel = "Tail" /\ \A t \in DOMAIN pc : pc[t] = "done"

\* How often each edge occurs in the first n slots of a buffer.
EdgeBag(buf, n) ==
  LET S == {x \in DOMAIN buf : x < n}
  IN  [e \in {buf[x] : x \in S} |-> Cardinality({x \in S : buf[x] = e})]

\* The end of trim(), once Tail has run:
\* cudaMemcpy(&nedges, indexesE[1], sizeof(u32), cudaMemcpyDeviceToHost); return nedges;
\* The caller finds the residual edges in the first nedges slots of bufferB.
TrimReturn ==
  /\ TailDone
  /\ nedges' = dstIds[0]
  /\ returned' = Append(returned, [count |-> dstIds[0], edges |-> EdgeBag(dst, dstIds[0])])
  /\ kernel' = "none"
  /\ UNCHANGED <<graph, recoveredges, sipkeys, selected, expand, gridDim, blockDim, round, tmpl>>
  /\ UNCHANGED <<memVars, shVars, thVars, tp, input, calls, host, histVars>>

TailNext ==
  \/ \E t \in DOMAIN pc : TailReserve(t)
  \/ \E g \in 0 .. gridDim - 1 : TailSync(g)
  \/ \E t \in DOMAIN pc : TailCopy(t)
  \/ TrimReturn

\* tp.tail.tpb is a run-time parameter while maxIn is a template argument:
\* a block may have more threads than a bucket has slots.
TailThreads == IF MaxThreads > EDGES_B \div 4 THEN MaxThreads ELSE EDGES_B \div 4 + 1

\* Tail<EDGES_B/4> reads what the last round, an odd one, has left: bucket g
\* holds edges whose first endpoint lies in bucket g, none of them null (Round
\* emits no null edge), and the buckets no block is launched for are empty.  The destination holds whatever an
\* earlier kernel wrote there.
TailInit ==
  \E keys \in KeySets, sel \in 0 .. 1 :
    /\ sipkeys = keys /\ selected = sel
    /\ graph = GraphOf(keys, sel, NEDGES)
    /\ \E gd \in 1 .. NX2 \div NB, bd \in 1 .. TailThreads,
          stale \in {ZeroEdge("uint2"), graph[1]},
          lo \in {b * EDGE_BLOCK_SIZE : b \in 0 .. NEDGES \div EDGE_BLOCK_SIZE - 1} :
         LET T == [NP |-> 1, maxIn |-> EDGES_B \div 4, EdgeIn |-> "uint2"]
             window == lo .. Min(lo + MaxLive, NEDGES) - 1
             alive == [g \in 0 .. gd - 1 |->
                         {n \in RoutedNonces(g, 0) \cap window : ~null("uint2", graph[n + 1])}]
             S == RoundSource(T, alive)
         IN  /\ gridDim = gd /\ blockDim = bd
             /\ tmpl = T
             /\ src = S.buf
             /\ srcIds = S.ids
             /\ dst = [x \in 0 .. NX2 * T.maxIn - 1 |-> stale]
             /\ destIdx = [g \in 0 .. gd - 1 |-> 0]
             /\ pc = [t \in (0 .. gd - 1) \X (0 .. bd - 1) |->
                        IF t[2] = 0 THEN "reserve" ELSE "sync"]
             /\ loc = [t \in (0 .. gd - 1) \X (0 .. bd - 1) |-> [i |-> 0]]
    /\ kernel = "Tail"
    /\ expand = 0 /\ round = 0
    /\ dstIds = [b \in 0 .. NX2 - 1 |-> 0]
    /\ ecounters = <<>> /\ tmp = <<>> /\ counters = <<>> /\ nonces = <<>> /\ recoveredges = <<>>
    /\ tp = <<>> /\ nedges = 0 /\ returned = <<>> /\ calls = <<>> /\ host = <<>> /\ input = <<>>
    /\ counted = <<>>
    /\ wlog = {}

SpecTail == TailInit /\ [][TailNext]_vars

\* The edges Tail is to gather: those in the first sourceIndexes[g] slots of
\* every bucket g, and the slots they are gathered in.
TailSourceSlots == {x \in DOMAIN src : x % tmpl.maxIn < srcIds[x \div tmpl.maxIn]}
TailDestSlots == {x \in DOMAIN dst : x < dstIds[0]}

\* C3: when the launch has ended, every edge occurs in the first total slots
\* of the destination as often as in the first sourceIndexes[g] slots of the
\* buckets, whatever the fills (within capacity) and the block size.
C3_TailPreservesMultiset ==
  (kernel = "none" /\ \A g \in 0 .. NX2 - 1 : srcIds[g] <= tmpl.maxIn) =>
    \A e \in {src[x] : x \in TailSourceSlots} \cup {dst[x] : x \in TailDestSlots} :
      Cardinality({x \in TailDestSlots : dst[x] = e}) =
        Cardinality({x \in TailSourceSlots : src[x] = e})


RECURSIVE SumTo(_, _)
SumTo(f, n) == IF n = 0 THEN 0 ELSE f[n - 1] + SumTo(f, n - 1)

\* C4: what trim() returns is the sum over the NX2 buckets of the count the
\* last round left for the bucket, capped at the capacity of the bucket.
C4_ReturnIsCappedSum ==
  (kernel = "none" /\ returned # <<>>) =>
    nedges = SumTo([g \in 0 .. NX2 - 1 |-> Min(srcIds[g], tmpl.maxIn)], NX2)


----------------------------------------------------------------------------
(* The end of trim(), called twice: the last round, Tail and the return.    *)
(* The last round is an odd one; it reads bufferB and writes bufferA, Tail  *)
(* reads bufferA and writes bufferB.  src and dst are the source and the    *)
(* destination of the kernel running.                                       *)

TailTemplate == [NP |-> 1, maxIn |-> EDGES_B \div 4, EdgeIn |-> "uint2"]

ZeroIndexes == [b \in 0 .. NX2 - 1 |-> 0]

\* cudaMemset(indexesE[1], 0, indexesSize);
\* Tail<DUCK_B_EDGES/4><<<tp.tail.blocks, tp.tail.tpb>>>(bufferA, bufferB, indexesE[0], indexesE[1]);
TrimLaunchTail ==
  /\ kernel = "Round"
  /\ \A t \in DOMAIN pc : pc[t] = "done"
  /\ kernel' = "Tail"
  /\ gridDim' = tp.tail.blocks /\ blockDim' = tp.tail.tpb
  /\ tmpl' = TailTemplate
  /\ src' = dst /\ srcIds' = dstIds
  /\ dst' = src /\ dstIds' = ZeroIndexes
  /\ destIdx' = [g \in 0 .. tp.tail.blocks - 1 |-> 0]
  /\ pc' = [t \in (0 .. tp.tail.blocks - 1) \X (0 .. tp.tail.tpb - 1) |->
              IF t[2] = 0 THEN "reserve" ELSE "sync"]
  /\ loc' = [t \in (0 .. tp.tail.blocks - 1) \X (0 .. tp.tail.tpb - 1) |-> [i |-> 0]]
  /\ wlog' = {}
  /\ UNCHANGED <<graph, recoveredges, sipkeys, selected, expand, round>>
  /\ UNCHANGED <<ecounters, tmp, counters, nonces, hostVars, counted>>

\* The next call of trim() up to the launch of its last round: the stages
\* before it leave in the live slots of bufferB, and in the counters, what
\* they left in the call before; the other slots keep what they hold.
TrimAgain ==
  /\ kernel = "none"
  /\ Len(returned) < 2
  /\ kernel' = "Round"
  /\ gridDim' = tp.trim.blocks /\ blockDim' = tp.trim.tpb
  /\ tmpl' = RoundTemplate(round, selected, expand)
  /\ src' = [x \in DOMAIN dst |->
               IF x \in DOMAIN input.buf /\ ~null("uint2", input.buf[x])
               THEN input.buf[x] ELSE dst[x]]
  /\ srcIds' = input.ids
  /\ dst' = src /\ dstIds' = ZeroIndexes
  /\ ecounters' = [g \in 0 .. tp.trim.blocks - 1 |->
                     [w \in 0 .. COUNTERWORDS - 1 |-> WORDSIZE ^ 2 - 1]]
  /\ pc' = [t \in (0 .. tp.trim.blocks - 1) \X (0 .. tp.trim.tpb - 1) |-> "zero"]
  /\ loc' = [t \in (0 .. tp.trim.blocks - 1) \X (0 .. tp.trim.tpb - 1) |->
               RoundLocals(RoundTemplate(round, selected, expand))]
  /\ wlog' = {}
  /\ UNCHANGED <<graph, recoveredges, sipkeys, selected, expand, round>>
  /\ UNCHANGED <<tmp, counters, nonces, destIdx, hostVars, counted>>

\* The blocks of a launch run one after another, in any order: block g may
\* take a step when no other block is under way.
BlockIdle(g) ==
  \/ \A t \in BlockThreads(g) : pc[t] = "done"
  \/ \A t \in BlockThreads(g) : pc[t] = "zero"
  \/ pc[<<g, 0>>] = "reserve"
Serial(g) == \A h \in 0 .. gridDim - 1 : h # g => BlockIdle(h)

TrimNext ==
  \/ \E t \in DOMAIN pc : Serial(t[1]) /\ RoundZero(t)
  \/ \E g \in 0 .. gridDim - 1 : Serial(g) /\ RoundSync1(g)
  \/ \E t \in DOMAIN pc : Serial(t[1]) /\ RoundCount(t)
  \/ \E t \in DOMAIN pc : Serial(t[1]) /\ RoundCount2(t)
  \/ \E g \in 0 .. gridDim - 1 : Serial(g) /\ RoundSync2(g)
  \/ \E t \in DOMAIN pc : Serial(t[1]) /\ RoundEmit(t)
  \/ \E t \in DOMAIN pc : Serial(t[1]) /\ RoundStore(t)
  \/ TrimLaunchTail
  \/ \E t \in DOMAIN pc : Serial(t[1]) /\ TailReserve(t)
  \/ \E g \in 0 .. gridDim - 1 : Serial(g) /\ TailSync(g)
  \/ \E t \in DOMAIN pc : Serial(t[1]) /\ TailCopy(t)
  \/ TrimReturn
  \/ TrimAgain

\* The last round of trim() is launched for the first time.  Its source
\* holds, in buckets 0 .. NX2/NB - 1, the edges of the first MaxLive nonces
\* that the endpoint the round counts routes there.
TrimInit ==
  \E keys \in KeySets, sel \in 0 .. 1 :
    /\ sipkeys = keys /\ selected = sel
    /\ graph = GraphOf(keys, sel, NEDGES)
    /\ \E rnd \in {r \in 4 .. 5 : r % 2 = 1},
          bd \in 1 .. MaxThreads, bt \in 1 .. MaxThreads :
         LET T == RoundTemplate(rnd, sel, 0)
             window == 0 .. Min(MaxLive, NEDGES) - 1
             alive == [g \in 0 .. NX2 \div NB - 1 |-> RoutedNonces(g, rnd % 2) \cap window]
             S == RoundSource(T, alive)
         IN  /\ round = rnd
             /\ tp = [trim |-> [blocks |-> NX2, tpb |-> bd],
                       tail |-> [blocks |-> NX2, tpb |-> bt]]
             /\ gridDim = NX2 /\ blockDim = bd
             /\ tmpl = T
             /\ src = S.buf
             /\ srcIds = S.ids
             /\ input = S
             /\ dst = [x \in 0 .. NX2 * T.maxOut - 1 |-> ZeroEdge(T.EdgeOut)]
             /\ ecounters = [g \in 0 .. NX2 - 1 |->
                               [w \in 0 .. COUNTERWORDS - 1 |-> WORDSIZE ^ 2 - 1]]
             /\ pc = [t \in (0 .. NX2 - 1) \X (0 .. bd - 1) |-> "zero"]
             /\ loc = [t \in (0 .. NX2 - 1) \X (0 .. bd - 1) |-> RoundLocals(T)]
    /\ kernel = "Round"
    /\ expand = 0
    /\ dstIds = ZeroIndexes
    /\ tmp = <<>> /\ counters = <<>> /\ nonces = <<>> /\ recoveredges = <<>> /\ destIdx = <<>>
    /\ nedges = 0 /\ returned = <<>> /\ calls = <<>> /\ host = <<>>
    /\ counted = <<>>
    /\ wlog = {}

SpecTrim == TrimInit /\ [][TrimNext]_vars

\* C5: the second of two consecutive trim() calls returns the count the first
\* returned and leaves the same edges, each as often, whatever the order in
\* which blocks and threads ran in either call.
C5_TrimTwiceSame ==
  Len(returned) = 2 => returned[1] = returned[2]


----------------------------------------------------------------------------
(* Cuckaroo_Recovery and Cuckoo_Recovery, one launch.                       *)

PROOFSIZE == 2

\* The nonces thread t scans: gid * loops + (0 .. loops - 1), where
\* loops = NEDGES / nthreads.
RecoveryLoops == NEDGES \div (gridDim * blockDim)
RecoveryGid(t) == blockDim * t[1] + t[2]

\* Cuckaroo: for (blk = 0; blk < loops; blk += EDGE_BLOCK_SIZE) the block of
\* nonce0 = gid * loops + blk is hashed and edge i of it is reported as nonce
\* nonce0 + i.  Cuckoo: nonce = gid * loops + i is hashed.  Either way the
\* result is a set of pairs (nonce reported, edge compared).
RecoveryScan(t) ==
  LET first == RecoveryGid(t) * RecoveryLoops
      edge0(nonce0) == nonce0 - (nonce0 % EDGE_BLOCK_SIZE)
  IN  IF selected # 0
      THEN {<<first + blk + i, graph[edge0(first + blk) + i + 1]>> :
              blk \in {b \in 0 .. RecoveryLoops - 1 : b % EDGE_BLOCK_SIZE = 0},
              i \in 0 .. EDGE_BLOCK_SIZE - 1}
      ELSE {<<first + i, graph[first + i + 1]>> : i \in 0 .. RecoveryLoops - 1}

\* Mutant: the pair is compared on its first node only.
RecoveryMatches_FirstNode(p, edge) == recoveredges[p][1] = edge[1]

\* if (recoveredges[p].x == u && recoveredges[p].y == v)
RecoveryMatches(p, edge) == recoveredges[p][1] = edge[1] /\ recoveredges[p][2] = edge[2]

\* The nonces at or after position from at which thread t finds a match.
RecoveryHits(t, from) ==
  {s \in RecoveryScan(t) :
     s[1] >= from /\ \E p \in 0 .. PROOFSIZE - 1 : RecoveryMatches(p, s[2])}

\* if (lid < PROOFSIZE) nonces[lid] = 0;
RecoveryClear(t) ==
  /\ kernel = "Recovery"
  /\ pc[t] = "clear"
  /\ nonces' = IF t[2] < PROOFSIZE THEN [nonces EXCEPT ![t[1]][t[2]] = 0] ELSE nonces
  /\ pc' = [pc EXCEPT ![t] = "sync1"]
  /\ UNCHANGED <<cfgVars, hostVars, memVars, ecounters, tmp, counters, destIdx, loc, histVars>>

\* The first __syncthreads().
RecoverySync1(g) ==
  /\ kernel = "Recovery"
  /\ \A t \in BlockThreads(g) : pc[t] = "sync1"
  /\ pc' = [t \in DOMAIN pc |-> IF t[1] = g THEN "scan" ELSE pc[t]]
  /\ UNCHANGED <<cfgVars, hostVars, memVars, shVars, loc, histVars>>

\* The scanning loop up to and including its next iteration that finds a
\* match: nonces[p] = nonce for every p the edge matches; or, when no later
\* iteration finds one, up to the barrier.
RecoveryFind(t) ==
  /\ kernel = "Recovery"
  /\ pc[t] = "scan"
  /\ LET hits == RecoveryHits(t, loc[t].i)
     IN  IF hits = {}
         THEN /\ pc' = [pc EXCEPT ![t] = "sync2"]
              /\ UNCHANGED <<nonces, loc>>
         ELSE LET hit == CHOOSE s \in hits : \A o \in hits : s[1] <= o[1]
              IN  /\ nonces' = [nonces EXCEPT ![t[1]] =
                                  [p \in 0 .. PROOFSIZE - 1 |->
                                     IF RecoveryMatches(p, hit[2]) THEN hit[1] ELSE @[p]]]
                  /\ loc' = [loc EXCEPT ![t].i = hit[1] + 1]
                  /\ UNCHANGED pc
  /\ UNCHANGED <<cfgVars, hostVars, memVars, ecounters, tmp, counters, destIdx, histVars>>

\* The second __syncthreads().
RecoverySync2(g) ==
  /\ kernel = "Recovery"
  /\ \A t \in BlockThreads(g) : pc[t] = "sync2"
  /\ pc' = [t \in DOMAIN pc |-> IF t[1] = g THEN "report" ELSE pc[t]]
  /\ UNCHANGED <<cfgVars, hostVars, memVars, shVars, loc, histVars>>

\* if (lid < PROOFSIZE) { if (nonces[lid] > 0) indexes[lid] = nonces[lid]; }
RecoveryReport(t) ==
  /\ kernel = "Recovery"
  /\ pc[t] = "report"
  /\ dstIds' = IF t[2] < PROOFSIZE /\ nonces[t[1]][t[2]] > 0
               THEN [dstIds EXCEPT ![t[2]] = nonces[t[1]][t[2]]]
               ELSE dstIds
  /\ pc' = [pc EXCEPT ![t] = "done"]
  /\ UNCHANGED <<cfgVars, hostVars, src, srcIds, dst, shVars, loc, histVars>>

RecoveryNext ==
  \/ \E t \in DOMAIN pc : RecoveryClear(t)
  \/ \E g \in 0 .. gridDim - 1 : RecoverySync1(g)
  \/ \E t \in DOMAIN pc : RecoveryFind(t)
  \/ \E g \in 0 .. gridDim - 1 : RecoverySync2(g)
  \/ \E t \in DOMAIN pc : RecoveryReport(t)

\* A pair that is the edge of no nonce.
NonEdge ==
  CHOOSE e \in (0 .. NEDGES - 1) \X (0 .. NEDGES - 1) :
    \A n \in 0 .. NEDGES - 1 : graph[n + 1] # e

\* A launch of the recovery kernel of the variant selected.  Every thread has
\* the same number of nonces (in Cuckaroo, of whole blocks of nonces) and a
\* block has at least PROOFSIZE threads.  The caller has put the pairs looked
\* for into recoveredges and has zeroed indexes.
RecoveryInit ==
  \E keys \in KeySets, sel \in 0 .. 1 :
    /\ sipkeys = keys /\ selected = sel
    /\ graph = GraphOf(keys, sel, NEDGES)
    /\ \E gd \in 1 .. NX2 \div NB, bd \in PROOFSIZE .. PROOFSIZE + MaxThreads - 1,
          n0 \in 0 .. NEDGES - 1, other \in BOOLEAN :
         /\ NEDGES % (gd * bd * (IF sel # 0 THEN EDGE_BLOCK_SIZE ELSE 1)) = 0
         /\ gridDim = gd /\ blockDim = bd
         /\ recoveredges = [p \in 0 .. PROOFSIZE - 1 |->
                              IF p = 0 THEN graph[n0 + 1]
                              ELSE IF other THEN graph[((n0 + p) % NEDGES) + 1]
                              ELSE NonEdge]
         /\ nonces = [g \in 0 .. gd - 1 |-> [p \in 0 .. PROOFSIZE - 1 |-> NEDGES - 1]]
         /\ pc = [t \in (0 .. gd - 1) \X (0 .. bd - 1) |-> "clear"]
         /\ loc = [t \in (0 .. gd - 1) \X (0 .. bd - 1) |-> [i |-> 0]]
    /\ kernel = "Recovery"
    /\ expand = 0 /\ round = 0 /\ tmpl = <<>>
    /\ src = <<>> /\ srcIds = <<>> /\ dst = <<>>
    /\ dstIds = [p \in 0 .. PROOFSIZE - 1 |-> 0]
    /\ ecounters = <<>> /\ tmp = <<>> /\ counters = <<>> /\ destIdx = <<>>
    /\ tp = <<>> /\ nedges = 0 /\ returned = <<>> /\ calls = <<>> /\ host = <<>> /\ input = <<>>
    /\ counted = <<>>
    /\ wlog = {}

SpecRecovery == RecoveryInit /\ [][RecoveryNext]_vars

RecoveryDone == kernel = "Recovery" /\ \A t \in DOMAIN pc : pc[t] = "done"

\* The nonces whose edge is the pair looked for in slot p.
NoncesOf(p) == {n \in 0 .. NEDGES - 1 : graph[n + 1] = recoveredges[p]}

----------------------------------------------------------------------------
(* Cuckaroo_SeedA<maxOut>, Cuckoo_SeedA<maxOut, EdgeOut> and                *)
(* SeedB<maxOut, EdgeOut>, one launch.  The three kernels stage edges in    *)
(* tiles tmp[NX][2*FLUSH] of shared memory and flush a tile to its bucket   *)
(* when it holds FLUSH entries; they differ in where an iteration takes its *)
(* edge from and in which tile it puts it.                                  *)

FLUSHA == 1
FLUSHB == 2

FLUSH == IF kernel = "SeedB" THEN FLUSHB ELSE FLUSHA
FLUSH2 == 2 * FLUSH

\* const int gid = group * dim + lid; const int nthreads = gridDim.x * dim;
SeedGid(t) == t[1] * blockDim + t[2]
SeedALoops == NEDGES \div (gridDim * blockDim)

\* const int bucketEdges = min((int)sourceIndexes[group], (int)maxOut);
bucketEdges(g) == Min(srcIds[g], tmpl.maxOut)

\* How many times thread t goes through the body of the main loop.
\* Cuckaroo_SeedA: for (blk = 0; blk < loops; blk += EDGE_BLOCK_SIZE)
\*                   for (e = 0; e < EDGE_BLOCK_SIZE; e++)
\* Cuckoo_SeedA:   for (i = 0; i < loops; i++)
\* SeedB:          loops = (bucketEdges + dim-1) / dim
SeedIterations(t) ==
  IF kernel = "SeedB" THEN (bucketEdges(t[1]) + blockDim - 1) \div blockDim
  ELSE IF selected # 0
       THEN ((SeedALoops + EDGE_BLOCK_SIZE - 1) \div EDGE_BLOCK_SIZE) * EDGE_BLOCK_SIZE
       ELSE SeedALoops

\* Mutant: every 64-nonce block of a thread starts at the thread's first nonce.
SeedANonce_FirstBlockOnly(t, i) ==
  LET nonce0 == SeedGid(t) * SeedALoops
  IN  IF selected # 0
      THEN (nonce0 - (nonce0 % EDGE_BLOCK_SIZE)) + (i % EDGE_BLOCK_SIZE)
      ELSE nonce0 + (i % EDGE_BLOCK_SIZE)

\* The nonce iteration i of thread t of Seed A hashes and routes.
\* Cuckaroo_SeedA: nonce0 = gid * loops + blk; dipblock(sipkeys, nonce0, buf)
\*                 hashes edge0 + e with edge0 = nonce0 & ~EDGE_BLOCK_MASK
\* Cuckoo_SeedA:   nonce = gid * loops + i
SeedANonce(t, i) ==
  IF selected # 0
  THEN LET nonce0 == SeedGid(t) * SeedALoops + (i \div EDGE_BLOCK_SIZE) * EDGE_BLOCK_SIZE
       IN  (nonce0 - (nonce0 % EDGE_BLOCK_SIZE)) + (i % EDGE_BLOCK_SIZE)
  ELSE SeedGid(t) * SeedALoops + i

\* What iteration i of thread t stages: the edge in its stored form and the
\* tile it goes to (the row in Seed A, the column in Seed B); none when the
\* thread of Seed B has no edge left in its bucket.
SeedStaged(t, i) ==
  IF kernel = "SeedB"
  THEN LET edgeIndex == i * blockDim + t[2]
           edge == src[t[1] * tmpl.maxOut + edgeIndex]
       IN  IF edgeIndex < bucketEdges(t[1])
           THEN [some |-> TRUE, edge |-> edge,
                 tile |-> (endpoint(tmpl.EdgeOut, edge, 0) \div NZ) % NX]
           ELSE [some |-> FALSE, edge |-> ZeroEdge(tmpl.EdgeOut), tile |-> 0]
  ELSE IF selected # 0
  THEN LET edge == graph[SeedANonce(t, i) + 1]
       IN  [some |-> TRUE, edge |-> edge, tile |-> edge[1] \div (NY * NZ)]
  ELSE LET nonce == SeedANonce(t, i)
           node0 == graph[nonce + 1][1]
           node1 == graph[nonce + 1][2]
       IN  [some |-> TRUE, edge |-> make_Edge("u32", tmpl.EdgeOut, nonce, node0, node1),
            tile |-> node0 \div (NY * NZ)]

\* Mutant: the tile of a row is flushed into the bucket of the block's column
\* and the tile's number.
SeedBucket_ByColumn(g, tile) == (g % NX) * NX + tile

\* The bucket the block of group g flushes its tile into:
\* Seed A: row * NX + col with col = group % NX; Seed B: row * NX + col with
\* row = group / NX.
SeedBucket(g, tile) ==
  IF kernel = "SeedB" THEN (g \div NX) * NX + tile ELSE tile * NX + (g % NX)

\* for (int row = lid; row < NX; row += dim) counters[row] = 0;
SeedZero(t) ==
  /\ kernel \in {"SeedA", "SeedB"}
  /\ pc[t] = "zero"
  /\ counters' = [counters EXCEPT ![t[1]] =
                    [k \in 0 .. NX - 1 |-> IF k % blockDim = t[2] THEN 0 ELSE @[k]]]
  /\ pc' = [pc EXCEPT ![t] = "sync0"]
  /\ UNCHANGED <<cfgVars, hostVars, memVars, ecounters, tmp, destIdx, nonces, loc, histVars>>

\* min((int)atomicAdd(counters + row, 1), (int)(FLUSHA2-1))
tileIdxOf(old) == Min(old, FLUSH2 - 1)

\* The head of the loop body: the edge is staged in its tile,
\*   int counter = min((int)atomicAdd(counters + row, 1), (int)(FLUSHA2-1));
\*   tmp[row][counter] = edge;
\* In Seed B a thread without an edge keeps counter = 0, and a null edge
\* takes the thread to the next iteration (continue).
SeedAdd(t) ==
  /\ kernel \in {"SeedA", "SeedB"}
  /\ pc[t] = "add"
  /\ LET st == SeedStaged(t, loc[t].i)
         counter == tileIdxOf(counters[t[1]][st.tile])
     IN  IF ~st.some
         THEN /\ loc' = [loc EXCEPT ![t].counter = 0]
              /\ pc' = [pc EXCEPT ![t] = "sync1"]
              /\ UNCHANGED <<tmp, counters>>
         ELSE IF kernel = "SeedB" /\ null(tmpl.EdgeOut, st.edge)
         THEN /\ loc' = [loc EXCEPT ![t].i = @ + 1, ![t].counter = 0, ![t].frow = t[2]]
              /\ pc' = [pc EXCEPT ![t] =
                          IF loc[t].i + 1 < SeedIterations(t) THEN "add" ELSE "final"]
              /\ UNCHANGED <<tmp, counters>>
         ELSE /\ counters' = [counters EXCEPT ![t[1]][st.tile] = @ + 1]
              /\ tmp' = IF counter \in 0 .. FLUSH2 - 1
                        THEN [tmp EXCEPT ![t[1]][st.tile][counter] = st.edge]
                        ELSE tmp
              /\ loc' = [loc EXCEPT ![t].counter = counter, ![t].tile = st.tile]
              /\ pc' = [pc EXCEPT ![t] = "sync1"]
  /\ UNCHANGED <<cfgVars, hostVars, memVars, ecounters, destIdx, nonces, histVars>>

\* __syncthreads(): the barrier of block g opens when every thread of the
\* block that has not left the kernel waits at one.  After the first barrier
\* of an iteration the thread whose entry filled the tile to FLUSH flushes it
\* (if (counter == FLUSHA-1)); after the second the next iteration begins.
SeedAfterBarrier(t) ==
  IF pc[t] = "sync1" THEN (IF loc[t].counter = FLUSH - 1 THEN "reserve" ELSE "sync2")
  ELSE IF pc[t] = "sync0" THEN (IF SeedIterations(t) > 0 THEN "add" ELSE "final")
  ELSE IF pc[t] = "sync2" THEN (IF loc[t].i + 1 < SeedIterations(t) THEN "add" ELSE "final")
  ELSE pc[t]

SeedSync(g) ==
  /\ kernel \in {"SeedA", "SeedB"}
  /\ \A t \in BlockThreads(g) : pc[t] \in {"sync0", "sync1", "sync2", "done"}
  /\ \E t \in BlockThreads(g) : pc[t] # "done"
  /\ pc' = [t \in DOMAIN pc |-> IF t[1] = g THEN SeedAfterBarrier(t) ELSE pc[t]]
  /\ loc' = [t \in DOMAIN loc |->
               IF t[1] = g /\ pc[t] = "sync2"
               THEN [loc[t] EXCEPT !.i = @ + 1, !.frow = t[2]]
               ELSE IF t[1] = g /\ pc[t] # "done"
               THEN [loc[t] EXCEPT !.frow = t[2]]
               ELSE loc[t]]
  /\ UNCHANGED <<cfgVars, hostVars, memVars, shVars, histVars>>

\* Mutant: the reservation is not clamped to the capacity.
cntOf_Unclamped(old, maxOut, n) == old

\* Mutant: a reservation that does not fit is moved to the head of the bucket.
cntOf_Head(old, maxOut, n) == IF old + n <= maxOut THEN old ELSE 0

\* int cnt = min((int)atomicAdd(indexes + row * NX + col, nflush), (int)(maxOut - nflush));
cntOf(old, maxOut, n) == Min(old, maxOut - n)

\* The flush reserves room in the bucket:
\*   int localIdx = min(FLUSHA2, counters[row]);
\*   int newCount = localIdx % FLUSHA;
\*   int nflush = localIdx - newCount;
\*   int cnt = min((int)atomicAdd(indexes + row * NX + col, nflush), (int)(maxOut - nflush));
SeedReserve(t) ==
  /\ kernel \in {"SeedA", "SeedB"}
  /\ pc[t] = "reserve"
  /\ LET localIdx == Min(FLUSH2, counters[t[1]][loc[t].tile])
         newCount == localIdx % FLUSH
         nflush == localIdx - newCount
         bucket == SeedBucket(t[1], loc[t].tile)
     IN  /\ dstIds' = [dstIds EXCEPT ![bucket] = @ + nflush]
         /\ loc' = [loc EXCEPT ![t].nflush = nflush,
                               ![t].cnt = cntOf(dstIds[bucket], tmpl.maxOut, nflush)]
  /\ pc' = [pc EXCEPT ![t] = "store"]
  /\ UNCHANGED <<cfgVars, hostVars, src, srcIds, dst, shVars, histVars>>

\* The stores of one flush of n tile entries to slots cnt .. cnt + n - 1 of
\* a bucket, and their records: the slot written, the block that wrote it, the
\* bucket the edge belongs in by its endpoint, the size of the flush, how many entries the tile had
\* lost to its own overflow, and whether the slot had been written before.
SeedWrites(g, tile, cnt, n) ==
  /\ dst' = [x \in DOMAIN dst |->
               LET i == x - (SeedBucket(g, tile) * tmpl.maxOut + cnt)
               IN  IF i \in 0 .. n - 1 THEN tmp[g][tile][i] ELSE dst[x]]
  /\ wlog' = wlog \cup
       {[index |-> SeedBucket(g, tile) * tmpl.maxOut + cnt + i,
         routed |-> IF kernel = "SeedB"
                    THEN (g \div NX) * NX + ((endpoint(tmpl.EdgeOut, tmp[g][tile][i], 0) \div NZ) % NX)
                    ELSE (endpoint(tmpl.EdgeOut, tmp[g][tile][i], 0) \div (NY * NZ)) * NX + (g % NX),
         n |-> n, by |-> g,
         lost |-> IF counters[g][tile] > FLUSH2 THEN counters[g][tile] - FLUSH2 ELSE 0,
         again |-> \E w \in wlog : w.index = SeedBucket(g, tile) * tmpl.maxOut + cnt + i] :
        i \in 0 .. n - 1}

\* for (int i = 0; i < nflush; i += 1) buffer[(row * NX + col) * maxOut + cnt + i] = tmp[row][i];
\* for (int t = 0; t < newCount; t++) tmp[row][t] = tmp[row][t + nflush];
\* counters[row] = newCount;
SeedStore(t) ==
  /\ kernel \in {"SeedA", "SeedB"}
  /\ pc[t] = "store"
  /\ LET g == t[1]
         tile == loc[t].tile
         localIdx == Min(FLUSH2, counters[g][tile])
         newCount == localIdx % FLUSH
     IN  /\ SeedWrites(g, tile, loc[t].cnt, loc[t].nflush)
         /\ tmp' = [tmp EXCEPT ![g][tile] =
                      [k \in 0 .. FLUSH2 - 1 |->
                         IF k < newCount THEN @[k + loc[t].nflush] ELSE @[k]]]
         /\ counters' = [counters EXCEPT ![g][tile] = newCount]
  /\ pc' = [pc EXCEPT ![t] = "sync2"]
  /\ UNCHANGED <<cfgVars, hostVars, src, srcIds, dstIds, ecounters, destIdx, nonces, loc, counted>>

\* After the main loop, for (int row = lid; row < NX; row += dim):
\*   int localIdx = min(FLUSHA2, counters[row]);
\*   int cnt = min((int)atomicAdd(indexes + row * NX + col, localIdx), (int)(maxOut - localIdx));
SeedFinal(t) ==
  /\ kernel \in {"SeedA", "SeedB"}
  /\ pc[t] = "final"
  /\ IF loc[t].frow >= NX
     THEN /\ pc' = [pc EXCEPT ![t] = "done"]
          /\ UNCHANGED <<dstIds, loc>>
     ELSE LET localIdx == Min(FLUSH2, counters[t[1]][loc[t].frow])
              bucket == SeedBucket(t[1], loc[t].frow)
          IN  /\ dstIds' = [dstIds EXCEPT ![bucket] = @ + localIdx]
              /\ loc' = [loc EXCEPT ![t].nflush = localIdx,
                                    ![t].cnt = cntOf(dstIds[bucket], tmpl.maxOut, localIdx)]
              /\ pc' = [pc EXCEPT ![t] = "fstore"]
  /\ UNCHANGED <<cfgVars, hostVars, src, srcIds, dst, shVars, histVars>>

\*   for (int i = 0; i < localIdx; i += 1)
\*     buffer[(row * NX + col) * maxOut + cnt + i] = tmp[row][i];
SeedFinalStore(t) ==
  /\ kernel \in {"SeedA", "SeedB"}
  /\ pc[t] = "fstore"
  /\ SeedWrites(t[1], loc[t].frow, loc[t].cnt, loc[t].nflush)
  /\ loc' = [loc EXCEPT ![t].frow = @ + blockDim]
  /\ pc' = [pc EXCEPT ![t] = "final"]
  /\ UNCHANGED <<cfgVars, hostVars, src, srcIds, dstIds, shVars, counted>>

SeedNext ==
  \/ \E t \in DOMAIN pc : SeedZero(t)
  \/ \E t \in DOMAIN pc : SeedAdd(t)
  \/ \E g \in 0 .. gridDim - 1 : SeedSync(g)
  \/ \E t \in DOMAIN pc : SeedReserve(t)
  \/ \E t \in DOMAIN pc : SeedStore(t)
  \/ \E t \in DOMAIN pc : SeedFinal(t)
  \/ \E t \in DOMAIN pc : SeedFinalStore(t)


SeedTemplate_CompactWhenExpandIsOne(sel, exp) ==
  LET form == IF exp = 1 THEN "u32" ELSE "uint2"
  IN  [NP |-> 1, maxIn |-> EDGES_A, maxOut |-> EDGES_A, EdgeIn |-> form, EdgeOut |-> form,
       part |-> 0]

\* The launches of trim(): Cuckoo_SeedA<EDGES_A, uint2> when tp.expand == 0
\* and Cuckoo_SeedA<EDGES_A, u32> otherwise, Cuckaroo_SeedA<EDGES_A>, and
\* SeedB<EDGES_A, EdgeOut> with the form Seed A wrote.
SeedTemplate(sel, exp) ==
  LET form == IF sel # 0 \/ exp = 0 THEN "uint2" ELSE "u32"
  IN  [NP |-> 1, maxIn |-> EDGES_A, maxOut |-> EDGES_A, EdgeIn |-> form, EdgeOut |-> form,
       part |-> 0]

SeedLocals == [i |-> 0, counter |-> 0, tile |-> 0, cnt |-> 0, nflush |-> 0, frow |-> 0]

\* The column Seed A files nonce n under when a grid of genA blocks generates
\* the edges: col = group % NX, the group being that of the thread whose
\* range of nonces holds n.
SeedAColumn(n, genA) == (n \div (NEDGES \div genA)) % NX

\* size_t qE = NX2 / NA: the buckets one of the NA launches of Seed B covers.
\* Launch i is given the buffers and index arrays advanced by its share, so
\* its group g is bucket i * qE + g of the grid.
SeedBShare == NX2 \div NA
GridBucket(b) == tmpl.part * SeedBShare + b

\* The state at the launch of a seed kernel.  Seed A reads no buffer; the
\* input of Seed B is what Seed A leaves: bucket row * NX + col holds edges
\* whose first endpoint lies in the row, under a counter that tells how many
\* were sent to it.  Shared memory starts with whatever it held.  A launch is
\* one block of up to FLUSHA + 2 threads, the fewest that can overflow a tile
\* of Seed A in one iteration, or several blocks of one thread.
SeedInit ==
  \E keys \in KeySets, sel \in 0 .. 1 :
    /\ sipkeys = keys /\ selected = sel
    /\ graph = GraphOf(keys, sel, NEDGES)
    /\ \E k \in {"SeedA", "SeedB"}, exp \in 0 .. 1, gd \in 1 .. NX2 \div NA,
          bd \in 1 .. FLUSHA + 2, garbage \in {FLUSHB + 1},
          genA \in {NX, 2 * NX}, i \in 0 .. NA - 1 :
         LET T == [SeedTemplate(sel, exp) EXCEPT !.part = i]
             alive == [g \in 0 .. gd - 1 |->
                         {n \in 0 .. NEDGES - 1 :
                            /\ graph[n + 1][1] \div (NY * NZ) = (i * SeedBShare + g) \div NX
                            /\ SeedAColumn(n, genA) = (i * SeedBShare + g) % NX}]
             S == RoundSource(T, IF k = "SeedB" THEN alive ELSE <<>>)
         IN  /\ exp = 0 \/ sel = 0
             /\ gd = 1 \/ bd = 1
             /\ k = "SeedB" \/ (genA = NX /\ i = 0)
             /\ kernel = k
             /\ expand = exp
             /\ gridDim = gd /\ blockDim = bd
             /\ tmpl = T
             /\ src = S.buf
             /\ srcIds = S.ids
             /\ dst = [x \in 0 .. NX2 * T.maxOut - 1 |-> ZeroEdge(T.EdgeOut)]
             /\ dstIds = [b \in 0 .. NX2 - 1 |-> 0]
             /\ tmp = [g \in 0 .. gd - 1 |-> [r \in 0 .. NX - 1 |->
                         [c \in 0 .. 2 * (IF k = "SeedB" THEN FLUSHB ELSE FLUSHA) - 1 |->
                            ZeroEdge(T.EdgeOut)]]]
             /\ counters = [g \in 0 .. gd - 1 |-> [r \in 0 .. NX - 1 |-> garbage]]
             /\ pc = [t \in (0 .. gd - 1) \X (0 .. bd - 1) |-> "zero"]
             /\ loc = [t \in (0 .. gd - 1) \X (0 .. bd - 1) |-> SeedLocals]
    /\ round = 0
    /\ ecounters = <<>> /\ nonces = <<>> /\ recoveredges = <<>> /\ destIdx = <<>>
    /\ tp = <<>> /\ nedges = 0 /\ returned = <<>> /\ calls = <<>> /\ host = <<>> /\ input = <<>>
    /\ counted = <<>>
    /\ wlog = {}

SpecSeed == SeedInit /\ [][SeedNext]_vars

\* A Seed A launch with tp.genA.blocks = NX or NX2 blocks (one per column, or
\* one per bucket as for the other kernels) of one thread each.
SeedWideInit ==
  \E keys \in KeySets, sel \in 0 .. 1 :
    /\ sipkeys = keys /\ selected = sel
    /\ graph = GraphOf(keys, sel, NEDGES)
    /\ \E exp \in 0 .. 1, gd \in {NX, NX2} :
         LET T == SeedTemplate(sel, exp)
         IN  /\ exp = 0 \/ sel = 0
             /\ kernel = "SeedA"
             /\ expand = exp
             /\ gridDim = gd /\ blockDim = 1
             /\ tmpl = T
             /\ src = <<>>
             /\ srcIds = <<>>
             /\ dst = [x \in 0 .. NX2 * T.maxOut - 1 |-> ZeroEdge(T.EdgeOut)]
             /\ dstIds = [b \in 0 .. NX2 - 1 |-> 0]
             /\ tmp = [g \in 0 .. gd - 1 |-> [r \in 0 .. NX - 1 |->
                         [c \in 0 .. 2 * FLUSHA - 1 |-> ZeroEdge(T.EdgeOut)]]]
             /\ counters = [g \in 0 .. gd - 1 |-> [r \in 0 .. NX - 1 |-> FLUSHB + 1]]
             /\ pc = [t \in (0 .. gd - 1) \X {0} |-> "zero"]
             /\ loc = [t \in (0 .. gd - 1) \X {0} |-> SeedLocals]
    /\ round = 0
    /\ ecounters = <<>> /\ nonces = <<>> /\ recoveredges = <<>> /\ destIdx = <<>>
    /\ tp = <<>> /\ nedges = 0 /\ returned = <<>> /\ calls = <<>> /\ host = <<>> /\ input = <<>>
    /\ counted = <<>>
    /\ wlog = {}

\* The device runs as many blocks at a time as it has room for: here the
\* blocks of the other columns one after the other first, then the blocks of
\* column 0 together, which share their buckets with one another and with no
\* block of another column.
Resident(g) ==
  \A u \in DOMAIN pc :
    (u[1] % NX # 0 /\ (g % NX = 0 \/ u[1] < g)) => pc[u] = "done"

SeedWideNext ==
  \/ \E t \in DOMAIN pc : Resident(t[1]) /\ SeedZero(t)
  \/ \E t \in DOMAIN pc : Resident(t[1]) /\ SeedAdd(t)
  \/ \E g \in 0 .. gridDim - 1 : Resident(g) /\ SeedSync(g)
  \/ \E t \in DOMAIN pc : Resident(t[1]) /\ SeedReserve(t)
  \/ \E t \in DOMAIN pc : Resident(t[1]) /\ SeedStore(t)
  \/ \E t \in DOMAIN pc : Resident(t[1]) /\ SeedFinal(t)
  \/ \E t \in DOMAIN pc : Resident(t[1]) /\ SeedFinalStore(t)

SpecSeedWide == SeedWideInit /\ [][SeedWideNext]_vars

SeedDone == kernel \in {"SeedA", "SeedB"} /\ \A t \in DOMAIN pc : pc[t] = "done"

\* The three kernels that write buckets under a capacity, each from the
\* state at its launch.
KernelsInit == SeedInit \/ RoundInit
KernelsNext == SeedNext \/ RoundNext
SpecKernels == KernelsInit /\ [][KernelsNext]_vars


----------------------------------------------------------------------------
(* Bucket capacity in Seed A, Seed B and Round.                             *)

Bucketing == kernel \in {"SeedA", "SeedB", "Round"}

\* C7: in every reachable state during and after Seed A, Seed B and Round,
\* each per-bucket counter of the destination index array is at most the
\* capacity maxOut of the bucket, however many edges were routed to it.
C7_CountersWithinCapacity ==
  Bucketing => \A b \in DOMAIN dstIds : dstIds[b] <= tmpl.maxOut

\* C8 as stated: once a bucket holds capacity-many edges further inserts are
\* dropped, so no slot written earlier in the kernel is written again.
C8_NoStoredEdgeOverwritten ==
  Bucketing => \A w \in wlog : ~w.again

\* The last slots of a bucket a clamped reservation can fall on: one in
\* Round, a whole tile in the seed kernels.
ClampedSlots(b) ==
  LET most == IF kernel = "Round" THEN 1 ELSE FLUSH2
  IN  {b * tmpl.maxOut + k : k \in tmpl.maxOut - most .. tmpl.maxOut - 1}

\* C8 (amended): an insert into a full bucket is not dropped, it overwrites;
\* a slot written earlier in the kernel is written again only in a bucket
\* whose counter has passed the capacity, and only among the last slots of
\* that same bucket (the last one in Round, the last 2 * FLUSH in the seed
\* kernels).
C8_OverwriteOnlyLastSlotsOfFullBucket ==
  Bucketing =>
    \A w \in wlog :
      w.again => /\ w.routed \in DOMAIN dstIds
                 /\ dstIds[w.routed] > tmpl.maxOut
                 /\ w.index \in ClampedSlots(w.routed)

\* A Round launch has ended after an emitted edge overwrote a stored one.
C8_Witness ==
  /\ kernel = "Round"
  /\ \A t \in DOMAIN pc : pc[t] = "done"
  /\ \E w \in wlog : w.again /\ w.index \in ClampedSlots(w.routed)

\* C9: whatever the counters, every global write by Seed A, Seed B and Round
\* lands at a slot in [0, maxOut) of the bucket the edge is routed to by its
\* endpoint: never in another bucket, never outside the destination buffer.
C9_WritesStayInRoutedBucket ==
  Bucketing =>
    \A w \in wlog :
      /\ w.index \in DOMAIN dst
      /\ w.routed \in DOMAIN dstIds
      /\ w.index \in {w.routed * tmpl.maxOut + k : k \in 0 .. tmpl.maxOut - 1}

\* A launch of Seed B has ended after more edges were routed to a bucket
\* than it holds, the excess having been written over its last slots.
C9_Witness ==
  /\ SeedDone /\ kernel = "SeedB"
  /\ \E w \in wlog : w.again /\ dstIds[w.routed] > tmpl.maxOut

\* The slots of bucket b below its counter.
SeedLiveSlots(b) == {b * tmpl.maxOut + k : k \in 0 .. Min(dstIds[b], tmpl.maxOut) - 1}

\* C10: after Seed A, in either variant and either edge form, every live
\* slot of a bucket in row r was written by the kernel and holds an edge
\* whose first endpoint has row r, also after a tile or a bucket overflowed.
C10_SeedARowInvariant ==
  (SeedDone /\ kernel = "SeedA") =>
    \A b \in DOMAIN dstIds : \A x \in SeedLiveSlots(b) :
      /\ \E w \in wlog : w.index = x
      /\ endpoint(tmpl.EdgeOut, dst[x], 0) \div (NY * NZ) = b \div NX

\* Seed A has ended in the compact edge form after a tile lost entries and a
\* bucket was sent more edges than it holds.
C10_Witness ==
  /\ SeedDone /\ kernel = "SeedA"
  /\ tmpl.EdgeOut = "u32"
  /\ \E w \in wlog : w.lost > 0
  /\ \E b \in DOMAIN dstIds : dstIds[b] > tmpl.maxOut


----------------------------------------------------------------------------
(* Seed B: where an edge ends up.                                           *)

\* C11 as stated: after Seed B every edge stored in grid bucket (r, c) has
\* the row r of its first endpoint and was routed to column c by its second
\* endpoint, c = (endpoint1 >> ZBITS) & (NX - 1).
C11_SeedBColumnBySecondEndpoint ==
  (SeedDone /\ kernel = "SeedB") =>
    \A b \in DOMAIN dstIds : \A x \in SeedLiveSlots(b) :
      /\ endpoint(tmpl.EdgeOut, dst[x], 0) \div (NY * NZ) = GridBucket(b) \div NX
      /\ (endpoint(tmpl.EdgeOut, dst[x], 1) \div NZ) % NX = GridBucket(b) % NX

\* C11 (amended): after Seed B every live slot of grid bucket (r, c) was
\* written by the kernel and holds an edge whose first endpoint has row r and
\* column c: endpoint0 >> ZBITS = r * NX + c.  The second endpoint plays no
\* part in the routing.
C11_SeedBColumnByFirstEndpoint ==
  (SeedDone /\ kernel = "SeedB") =>
    \A b \in DOMAIN dstIds : \A x \in SeedLiveSlots(b) :
      /\ \E w \in wlog : w.index = x
      /\ endpoint(tmpl.EdgeOut, dst[x], 0) \div NZ = GridBucket(b)

\* The second of the launches of Seed B has ended, in the compact form, with
\* edges in both columns of its row, one of them of a second endpoint that
\* belongs to the other column.
C11_Witness ==
  /\ SeedDone /\ kernel = "SeedB"
  /\ tmpl.part = NA - 1 /\ tmpl.EdgeOut = "u32"
  /\ \A b \in 0 .. SeedBShare - 1 : dstIds[b] > 0
  /\ \E b \in 0 .. SeedBShare - 1 : \E x \in SeedLiveSlots(b) :
       (endpoint(tmpl.EdgeOut, dst[x], 1) \div NZ) % NX # GridBucket(b) % NX


----------------------------------------------------------------------------
(* The host side: edgetrimmer::edgetrimmer and edgetrimmer::trim as the     *)
(* sequence of runtime calls they make.  A buffer region is <<buffer, lo,   *)
(* hi>> in entries from the buffer's pointer; a region of counters is       *)
(* <<i, lo, hi>>, the counters indexesE[i] + lo .. indexesE[i] + hi - 1.    *)

MaxTrims == 5

\* The grid of the launches: tp.genB.blocks, tp.trim.blocks, tp.tail.blocks.
TrimBlocks == NX2

\* A runtime call that is not a kernel launch; checked: wrapped in
\* checkCudaErrors.  ids is the index array a cudaMemset or cudaMalloc names.
Call(op, line, checked, ids) ==
  [op |-> op, line |-> line, checked |-> checked, kernel |-> "none", rnd |-> 0, part |-> 0,
   tmpl |-> <<>>, src |-> <<>>, dst |-> <<>>, srcIds |-> <<>>, dstIds |-> ids]

\* kernel<T><<<...>>>(src, dst, srcIds, dstIds): no status is read.
Launch(line, k, rnd, part, T, s, d, sIds, dIds) ==
  [op |-> "launch", line |-> line, checked |-> FALSE, kernel |-> k, rnd |-> rnd, part |-> part,
   tmpl |-> T, src |-> s, dst |-> d, srcIds |-> sIds, dstIds |-> dIds]

Memset_Synchronizing(line, i) == Call("cudaDeviceSynchronize", line, FALSE, <<>>)

\* cudaMemset(indexesE[i], 0, indexesSize);
Memset(line, i) == Call("cudaMemset", line, FALSE, <<i, 0, NX2>>)

\* Round<NP, maxIn, EdgeIn, maxOut, EdgeOut><<<blocks, tpb>>>(rnd, *dipkeys,
\* from + sOff, to + dOff, indexesE[fromIds] + idOff, indexesE[toIds]): block
\* g reads bucket g of each of the NP partitions, NX2 * maxIn entries and NX2
\* counters apart, and any block may write any of the NX2 buckets.
RoundLaunch(line, rnd, part, T, blocks, from, sOff, to, dOff, fromIds, idOff, toIds) ==
  Launch(line, "Round", rnd, part, T,
         <<from, sOff, sOff + (T.NP - 1) * NX2 * T.maxIn + blocks * T.maxIn>>,
         <<to, dOff, dOff + NX2 * T.maxOut>>,
         <<fromIds, idOff, idOff + (T.NP - 1) * NX2 + blocks>>,
         <<toIds, 0, NX2>>)

\* The constructor.
ConstructCalls ==
  <<Call("cudaSetDevice", 422, FALSE, <<>>), Call("cudaMalloc", 423, TRUE, <<>>)>>
  \o [i \in 1 .. NB + 1 |-> Call("cudaMalloc", 426, TRUE, <<i - 1, 0, NX2>>)]
  \o <<Call("cudaMalloc", 435, TRUE, <<>>)>>

\* trim() up to the end of the seeding.
SeedCalls(sel, exp) ==
  LET T == SeedTemplate(sel, exp)
      qA == (NX2 \div NA) * EDGES_A
      qE == NX2 \div NA
  IN  <<Call("cudaSetDevice", 470, FALSE, <<>>),
        Memset(478, 1),
        Call("cudaMemcpy", 479, FALSE, <<>>),
        Call("cudaDeviceSynchronize", 481, TRUE, <<>>),
        Launch(IF sel # 0 THEN 492 ELSE IF exp = 0 THEN 489 ELSE 490, "SeedA", 0, 0, T,
               <<>>, <<"AB", 0, NX2 * EDGES_A>>, <<>>, <<1, 0, NX2>>),
        Call("cudaDeviceSynchronize", 494, TRUE, <<>>),
        Memset(504, 0)>>
      \o [k \in 1 .. NA |->
            LET i == k - 1
            IN  Launch(IF sel # 0 \/ exp = 0 THEN 511 ELSE 514, "SeedB", 0, i,
                       [T EXCEPT !.part = i],
                       <<"AB", i * qA, (i + 1) * qA>>, <<"A", i * qA, (i + 1) * qA>>,
                       <<1, i * qE, (i + 1) * qE>>, <<0, i * qE, (i + 1) * qE>>)]

\* Rounds 0 to 3.
FirstRoundCalls(sel, exp) ==
  LET T0 == RoundTemplate(0, sel, exp)
      qA == (NX2 \div NB) * EDGES_A
      qB == NX2 * (EDGES_B \div NB)
      qE == NX2 \div NB
  IN  [i \in 1 .. NB |-> Memset(534, i)]
      \o [k \in 1 .. NB |->
            LET i == NB - k
            IN  RoundLaunch(IF sel # 0 \/ exp = 0 THEN 541 ELSE IF exp = 1 THEN 543 ELSE 545,
                            0, i, T0, TrimBlocks \div NB,
                            "A", i * qA, "B", i * qB, 0, i * qE, 1 + i)]
      \o <<Memset(548, 0),
           RoundLaunch(IF sel # 0 \/ exp < 2 THEN 551 ELSE 553, 1, 0,
                       RoundTemplate(1, sel, exp), TrimBlocks, "B", 0, "A", 0, 1, 0, 0),
           Memset(555, 1),
           RoundLaunch(556, 2, 0, RoundTemplate(2, sel, exp), TrimBlocks, "A", 0, "B", 0, 0, 0, 1),
           Memset(557, 0),
           RoundLaunch(558, 3, 0, RoundTemplate(3, sel, exp), TrimBlocks, "B", 0, "A", 0, 1, 0, 0),
           Call("cudaDeviceSynchronize", 566, FALSE, <<>>)>>

LoopCalls_OneRoundOnly(rnd, ntrims, sel, exp) ==
  IF rnd < ntrims
  THEN <<Memset(569, 1),
         RoundLaunch(570, rnd, 0, RoundTemplate(rnd, sel, exp), TrimBlocks,
                     "A", 0, "B", 0, 0, 0, 1)>>
  ELSE <<>>

\* for (int round = 4; round < tp.ntrims; round += 2) { ... }
RECURSIVE LoopCalls(_, _, _, _)
LoopCalls(rnd, ntrims, sel, exp) ==
  IF rnd < ntrims
  THEN <<Memset(569, 1),
         RoundLaunch(570, rnd, 0, RoundTemplate(rnd, sel, exp), TrimBlocks,
                     "A", 0, "B", 0, 0, 0, 1),
         Memset(571, 0),
         RoundLaunch(572, rnd + 1, 0, RoundTemplate(rnd + 1, sel, exp), TrimBlocks,
                     "B", 0, "A", 0, 1, 0, 0)>>
       \o LoopCalls(rnd + 2, ntrims, sel, exp)
  ELSE <<>>

\* The end of trim().
TailCalls ==
  <<Call("cudaDeviceSynchronize", 581, TRUE, <<>>),
    Memset(592, 1),
    Call("cudaDeviceSynchronize", 593, TRUE, <<>>),
    Launch(595, "Tail", 0, 0, TailTemplate,
           <<"A", 0, TrimBlocks * TailTemplate.maxIn>>, <<"B", 0, NX2 * TailTemplate.maxIn>>,
           <<0, 0, TrimBlocks>>, <<1, 0, 1>>),
    Call("cudaMemcpy", 596, FALSE, <<1, 0, 1>>),
    Call("cudaDeviceSynchronize", 609, TRUE, <<>>),
    Call("return", 615, FALSE, <<>>)>>

TrimCalls(sel, exp, ntrims) ==
  SeedCalls(sel, exp) \o FirstRoundCalls(sel, exp) \o LoopCalls(4, ntrims, sel, exp) \o TailCalls

\* Init: the object as the constructor leaves it.  Every cudaMalloc has
\* succeeded (a failed one is checked and no object is handed out); the
\* unchecked cudaSetDevice may have failed.  cudaMalloc places the index
\* arrays where it likes: here one after the other, with or without a gap
\* between two of them.
HostInit ==
  /\ kernel = "host"
  /\ \E sel \in 0 .. 1, exp \in 0 .. 2, ntrims \in 0 .. MaxTrims,
        gap \in [1 .. NB -> {0, NX2}], bad \in BOOLEAN :
       /\ selected = sel /\ expand = exp
       /\ tp = [ntrims |-> ntrims, expand |-> exp]
       /\ calls = [k \in DOMAIN ConstructCalls |->
                     [call |-> ConstructCalls[k],
                      status |-> IF bad /\ k = 1 THEN "error" ELSE "ok"]]
       /\ host = [at |-> 1, state |-> "running",
                  indexesE |-> [i \in 0 .. NB |->
                                  LET S[j \in 0 .. NB] ==
                                        IF j = 0 THEN 0 ELSE S[j - 1] + NX2 + gap[j]
                                  IN  S[i]]]
  /\ graph = <<>> /\ sipkeys = <<0, 0, 0, 0>>
  /\ gridDim = 0 /\ blockDim = 0 /\ round = 0 /\ tmpl = <<>>
  /\ src = <<>> /\ srcIds = <<>> /\ dst = <<>> /\ dstIds = <<>>
  /\ ecounters = <<>> /\ tmp = <<>> /\ counters = <<>> /\ nonces = <<>> /\ recoveredges = <<>>
  /\ destIdx = <<>> /\ pc = <<>> /\ loc = <<>>
  /\ nedges = 0 /\ returned = <<>> /\ input = <<>> /\ counted = <<>> /\ wlog = {}

\* The next statement of trim().
HostNextCall == TrimCalls(selected, expand, tp.ntrims)[host.at]

\* checkCudaErrors(call): a status that is not cudaSuccess ends the run
\* with the error reported instead of a count.
checkCudaErrors(call, status) ==
  IF call.checked /\ status # "ok" THEN "failed" ELSE "running"

\* trim() makes its next runtime call, which succeeds or fails.  One failing
\* call in a run is enough for all that is examined here.
HostCall ==
  /\ kernel = "host" /\ host.state = "running"
  /\ HostNextCall.op # "return"
  /\ \E status \in {"ok", "error"} :
       /\ status = "error" => \A k \in DOMAIN calls : calls[k].status = "ok"
       /\ calls' = Append(calls, [call |-> HostNextCall, status |-> status])
       /\ host' = [host EXCEPT !.at = @ + 1, !.state = checkCudaErrors(HostNextCall, status)]
  /\ UNCHANGED <<cfgVars, memVars, shVars, thVars, tp, nedges, returned, input, histVars>>

\* return nedges;
HostReturn ==
  /\ kernel = "host" /\ host.state = "running"
  /\ HostNextCall.op = "return"
  /\ calls' = Append(calls, [call |-> HostNextCall, status |-> "ok"])
  /\ host' = [host EXCEPT !.state = "returned"]
  /\ returned' = Append(returned, [count |-> nedges])
  /\ UNCHANGED <<cfgVars, memVars, shVars, thVars, tp, nedges, input, histVars>>

HostNext == HostCall \/ HostReturn

SpecHost == HostInit /\ [][HostNext]_vars



----------------------------------------------------------------------------
(* Null entries.                                                            *)

\* The form of the edges a kernel writes.
WrittenForm == IF kernel \in {"Tail", "none"} THEN "uint2" ELSE tmpl.EdgeOut

\* C12: every kernel that reads edges from buckets (Seed B, Round, Tail)
\* skips the null entries of its input wherever they occur: none is copied to
\* an output, so no slot a reader has written holds a null entry.
C12_ReadersCopyNoNull ==
  kernel \in {"SeedB", "Round", "Tail", "none"} =>
    \A w \in wlog : w.index \in DOMAIN dst => ~null(WrittenForm, dst[w.index])


----------------------------------------------------------------------------
(* Synchronization between the launches of trim().                          *)

IsLaunch(k) == calls[k].call.op = "launch"
IsSync(k) == calls[k].call.op = "cudaDeviceSynchronize"

\* The launches after which trim() calls cudaDeviceSynchronize before
\* anything else: Seed A (494), round 3 (566) and the last round of the loop
\* (581).
SyncedLaunch(c) ==
  \/ c.kernel = "SeedA"
  \/ c.kernel = "Round" /\ c.rnd = 3
  \/ c.kernel = "Round" /\ c.rnd > 3 /\ c.rnd % 2 = 1 /\ c.rnd + 1 >= tp.ntrims

\* C13: in trim(), every kernel dispatch (Seed A, each Seed B launch, each
\* Round launch, Tail) is followed by an explicit device synchronization
\* before the next kernel dispatch or counter reset is issued.
C13_SyncAfterEveryDispatch ==
  kernel = "host" =>
    \A k \in DOMAIN calls : \A j \in DOMAIN calls :
      (IsLaunch(k) /\ j > k /\ calls[j].call.op \in {"launch", "cudaMemset"}) =>
        \E m \in k + 1 .. j - 1 : IsSync(m)

\* C13 as amended: the call that follows a dispatch is cudaDeviceSynchronize
\* exactly after Seed A, after round 3 and after the last round of the loop;
\* after every other Seed B or Round dispatch the next dispatch or counter
\* reset is issued with no synchronization in between; the Tail dispatch is
\* followed by the copy of the count and then a synchronization; and when
\* trim() returns, a synchronization has followed every dispatch.
C13_SyncOnlyAfterSeedARound3LastRound ==
  kernel = "host" =>
    /\ \A k \in DOMAIN calls : (IsLaunch(k) /\ k < Len(calls)) =>
         /\ IsSync(k + 1) <=> SyncedLaunch(calls[k].call)
         /\ calls[k].call.kernel = "Tail" <=> calls[k + 1].call.op = "cudaMemcpy"
         /\ ~SyncedLaunch(calls[k].call) /\ calls[k].call.kernel # "Tail"
              => calls[k + 1].call.op \in {"launch", "cudaMemset"}
    /\ host.state = "returned" =>
         \A k \in DOMAIN calls : IsLaunch(k) => \E m \in k + 1 .. Len(calls) : IsSync(m)

C13_Witness ==
  /\ kernel = "host" /\ host.state = "returned" /\ tp.ntrims > 4
  /\ \E k \in DOMAIN calls : IsLaunch(k) /\ IsLaunch(k + 1) /\ calls[k].call.kernel = "SeedB"
  /\ \E k \in DOMAIN calls : IsLaunch(k) /\ calls[k].call.rnd = 2
                              /\ calls[k + 1].call.op = "cudaMemset"


----------------------------------------------------------------------------
(* Status of the runtime calls.                                             *)

\* C14: every runtime call made by the constructor and by trim() (device
\* select, allocation, memset, memcpy, kernel launch, synchronize) has its
\* status checked, and after a call that did not succeed trim() does not go
\* on to return a residual count.
C14_EveryStatusCheckedAndSurfaced ==
  kernel = "host" =>
    /\ \A k \in DOMAIN calls : calls[k].call.op # "return" => calls[k].call.checked
    /\ host.state = "returned" => \A k \in DOMAIN calls : calls[k].status = "ok"


----------------------------------------------------------------------------
(* The number of rounds.                                                    *)

\* The round numbers of the Round launches made so far.
RoundsLaunched == {calls[k].call.rnd : k \in {j \in DOMAIN calls : calls[j].call.kernel = "Round"}}
TailDispatched == \E k \in DOMAIN calls : calls[k].call.kernel = "Tail"

\* Rounds 0 to 3 are unconditional and the loop adds rounds in pairs.
RoundsApplied(ntrims) == IF ntrims <= 4 THEN 4 ELSE ntrims + (ntrims % 2)

\* C15: for every value of tp.ntrims, trim() applies exactly ntrims trim
\* rounds (round numbers 0 .. ntrims-1) before it dispatches Tail.
C15_ExactlyNtrimsRounds ==
  (kernel = "host" /\ TailDispatched) => RoundsLaunched = 0 .. tp.ntrims - 1

\* C15 as amended: before Tail, trim() has applied rounds 0 .. R-1 with
\* R = 4 when ntrims <= 4 and R = ntrims rounded up to an even number
\* otherwise; round 0 is issued as NB launches and every other round once.
C15_RoundsAreFourOrNtrimsRoundedUp ==
  (kernel = "host" /\ TailDispatched) =>
    /\ RoundsLaunched = 0 .. RoundsApplied(tp.ntrims) - 1
    /\ \A r \in RoundsLaunched :
         Cardinality({k \in DOMAIN calls : calls[k].call.kernel = "Round" /\ calls[k].call.rnd = r})
           = IF r = 0 THEN NB ELSE 1

C15_Witness ==
  /\ kernel = "host" /\ TailDispatched
  /\ tp.ntrims = 5 /\ RoundsLaunched = 0 .. 5


----------------------------------------------------------------------------
(* The edge form Seed A writes.                                             *)

SeedALaunches == {k \in DOMAIN calls : calls[k].call.kernel = "SeedA"}

\* C20: Seed A writes compact (nonce-only) edges exactly when expand == 1
\* and packed (two-endpoint) edges for every other expand value.
C20_SeedACompactIffExpandIsOne ==
  kernel = "host" =>
    \A k \in SeedALaunches : calls[k].call.tmpl.EdgeOut = "u32" <=> expand = 1

\* C20 as amended: Seed A writes compact edges exactly when the variant is
\* Cuckoo (selected == 0) and expand > 0, and packed edges otherwise:
\* Cuckaroo is packed for every expand, Cuckoo with expand == 2 is compact.
C20_SeedACompactIffCuckooAndExpanded ==
  kernel = "host" =>
    \A k \in SeedALaunches :
      /\ calls[k].call.tmpl.EdgeOut = "u32" <=> (selected = 0 /\ expand > 0)
      /\ calls[k].call.tmpl.EdgeOut = "uint2" <=> ~(selected = 0 /\ expand > 0)
      /\ calls[k].call.line = 490 <=> calls[k].call.tmpl.EdgeOut = "u32"

C20_Witness ==
  /\ kernel = "host" /\ selected = 0 /\ expand = 2
  /\ \E k \in SeedALaunches : calls[k].call.tmpl.EdgeOut = "u32" /\ calls[k].status = "ok"


----------------------------------------------------------------------------
(* The order of the stages and what each one reads.                         *)

\* The stage a launch belongs to: Seed A, Seed B, round 0, round 1, ..., Tail.
Stage(c) ==
  IF c.kernel = "SeedA" THEN 0
  ELSE IF c.kernel = "SeedB" THEN 1
  ELSE IF c.kernel = "Round" THEN 2 + c.rnd
  ELSE 2 + RoundsApplied(tp.ntrims)

\* The entries of a buffer region, and the addresses of a region of
\* counters, indexesE[i] being where cudaMalloc has put it.
BufferCells(r) == IF r = <<>> THEN {} ELSE {<<r[1], o>> : o \in r[2] .. r[3] - 1}
CounterCells(r) == IF r = <<>> THEN {} ELSE {host.indexesE[r[1]] + o : o \in r[2] .. r[3] - 1}

LaunchesOf(st) == {k \in DOMAIN calls : IsLaunch(k) /\ Stage(calls[k].call) = st}
StageComplete(st) == \E k \in DOMAIN calls : IsLaunch(k) /\ Stage(calls[k].call) > st

\* C18: trim() issues its kernels in the fixed order Seed A, NA Seed B
\* launches, round 0 (NB launches), rounds 1, 2, 3, ..., Tail, and each
\* stage reads exactly the buffer and the index array that the immediately
\* preceding stage wrote, so Tail consumes the output of the last round.
C18_StagesInOrderReadingPredecessor ==
  kernel = "host" =>
    /\ \A k \in DOMAIN calls : \A j \in DOMAIN calls :
         (IsLaunch(k) /\ IsLaunch(j) /\ k < j) =>
           /\ Stage(calls[k].call) <= Stage(calls[j].call)
           /\ \A st \in 0 .. Stage(calls[j].call) - 1 : LaunchesOf(st) # {}
    /\ \A st \in 1 .. 2 + RoundsApplied(tp.ntrims) :
         LET wrote == UNION {BufferCells(calls[k].call.dst) : k \in LaunchesOf(st - 1)}
             wroteIds == UNION {CounterCells(calls[k].call.dstIds) : k \in LaunchesOf(st - 1)}
             read == UNION {BufferCells(calls[k].call.src) : k \in LaunchesOf(st)}
             readIds == UNION {CounterCells(calls[k].call.srcIds) : k \in LaunchesOf(st)}
         IN  /\ read \subseteq wrote /\ readIds \subseteq wroteIds
             /\ StageComplete(st) => read = wrote /\ readIds = wroteIds


----------------------------------------------------------------------------
(* Packed and compact specializations.                                      *)

\* The two endpoints of a stored edge, whatever its form.
Packed(form, e) == <<endpoint(form, e, 0), endpoint(form, e, 1)>>

\* The entries of the source below the counters (clamped to the capacity).
SourceSlots ==
  {x \in DOMAIN src : x % tmpl.maxIn < Min(srcIds[x \div tmpl.maxIn], tmpl.maxIn)}

\* C16: the packed and the compact specializations keep and drop exactly the
\* same nonces at every stage.  For Seed B, which trims nothing: when no
\* tile and no bucket overflows, the edges it leaves are the edges the packed
\* specialization keeps, every edge of its input whose endpoints are not both
\* zero, whichever form the launch works on.
C16_SeedBKeepsWhatPackedKeeps ==
  (/\ SeedDone /\ kernel = "SeedB"
   /\ \A b \in DOMAIN dstIds : dstIds[b] <= tmpl.maxOut
   /\ \A w \in wlog : w.lost = 0) =>
    {Packed(tmpl.EdgeOut, dst[x]) : x \in UNION {SeedLiveSlots(b) : b \in DOMAIN dstIds}}
      \ {<<0, 0>>}
    = {Packed(tmpl.EdgeIn, src[x]) : x \in SourceSlots} \ {<<0, 0>>}


----------------------------------------------------------------------------
(* The Cuckaroo edge of one nonce, as Cuckaroo_SeedA and Cuckaroo_Recovery  *)
(* obtain it: dipblock for the block of the nonce, then buf[e] ^ last.      *)

EdgeKeySets == {<<a, b, a + b, 1>> : a \in 0 .. 3, b \in 0 .. 3}

EdgeInit ==
  /\ kernel = "dipblock"
  /\ \E keys \in EdgeKeySets, n \in 0 .. NEDGES - 1 : sipkeys = keys /\ input = n
  /\ pc = "call" /\ tmp = <<>> /\ dst = <<>>
  /\ graph = <<>> /\ selected = 1 /\ expand = 0
  /\ gridDim = 0 /\ blockDim = 0 /\ round = 0 /\ tmpl = <<>>
  /\ src = <<>> /\ srcIds = <<>> /\ dstIds = <<>>
  /\ ecounters = <<>> /\ counters = <<>> /\ nonces = <<>> /\ recoveredges = <<>>
  /\ destIdx = <<>> /\ loc = <<>>
  /\ tp = <<>> /\ nedges = 0 /\ returned = <<>> /\ calls = <<>> /\ host = <<>>
  /\ counted = <<>> /\ wlog = {}

\* const u64 last = dipblock(sipkeys, nonce0, buf);
EdgeBlock ==
  /\ kernel = "dipblock" /\ pc = "call"
  /\ tmp' = dipblock(sipkeys, input)
  /\ pc' = "use"
  /\ UNCHANGED <<cfgVars, src, srcIds, dst, dstIds, ecounters, counters, destIdx, nonces,
                 loc, hostVars, histVars>>

\* u64 edge = buf[e] ^ last; node0 = edge & EDGEMASK; node1 = (edge >> 32) & EDGEMASK;
EdgeUse ==
  /\ kernel = "dipblock" /\ pc = "use"
  /\ dst' = BlockEdge(tmp, input % EDGE_BLOCK_SIZE)
  /\ pc' = "done"
  /\ UNCHANGED <<cfgVars, src, srcIds, dstIds, shVars, loc, hostVars, histVars>>

EdgeNext == EdgeBlock \/ EdgeUse
SpecEdges == EdgeInit /\ [][EdgeNext]_vars

\* b[i]: the xor of the four lanes once the nonces n0 .. n0 + i have been
\* absorbed one after the other, starting from the keys.
RECURSIVE LanesAfter(_, _, _)
LanesAfter(v, n0, i) == IF i = 0 THEN hash24(v, n0) ELSE hash24(LanesAfter(v, n0, i - 1), n0 + i)
HashOutput(keys, n0, i) == xor_lanes(LanesAfter(keys, n0, i))

\* The two nodes of a 2 * HALFLANE-bit edge word.
Nodes(w) == <<w % NEDGES, (w \div 2 ^ HALFLANE) % NEDGES>>

\* C17: in Cuckaroo mode the edge of every nonce n is b[n mod S] XOR b[S-1],
\* S the block size and b[i] the hash output for nonce (n & ~(S-1)) + i; in
\* particular the edge of the last nonce of each block is 0.
C17_EdgeIsHashXorLast ==
  (kernel = "dipblock" /\ pc = "done") =>
    LET n0 == input - (input % EDGE_BLOCK_SIZE)
    IN  dst = Nodes(Xor(HashOutput(sipkeys, n0, input % EDGE_BLOCK_SIZE),
                        HashOutput(sipkeys, n0, EDGE_BLOCK_MASK)))

\* C17 as amended: the edge of nonce n is b[n mod S] XOR b[S-1] for every
\* nonce but the last of its block, and b[S-1] itself for the last one.
C17_LastEdgeIsLastHash ==
  (kernel = "dipblock" /\ pc = "done") =>
    LET n0 == input - (input % EDGE_BLOCK_SIZE)
        last == HashOutput(sipkeys, n0, EDGE_BLOCK_MASK)
    IN  dst = Nodes(IF input % EDGE_BLOCK_SIZE = EDGE_BLOCK_MASK THEN last
                    ELSE Xor(HashOutput(sipkeys, n0, input % EDGE_BLOCK_SIZE), last))

C17_Witness ==
  /\ kernel = "dipblock" /\ pc = "done"
  /\ input % EDGE_BLOCK_SIZE = EDGE_BLOCK_MASK
  /\ dst # <<0, 0>>


----------------------------------------------------------------------------
(* The blocks that write a bucket in Seed A.                                *)

\* The blocks that have written to bucket b.
Writers(b) == {w.by : w \in {v \in wlog : v.index \div tmpl.maxOut = b}}

\* C19: in a Seed A launch, for every block count in genA, each output
\* bucket (row, col) is written by at most one thread-block.
C19_OneBlockPerBucket ==
  kernel = "SeedA" => \A b \in DOMAIN dstIds : Cardinality(Writers(b)) <= 1

\* C19 as amended: bucket (row, col) is written only by the blocks whose
\* index is col modulo NX, one block when the grid has at most NX blocks and
\* several otherwise; two blocks write the same slot only in a bucket whose
\* counter has passed the capacity.
C19_WritersAreTheBlocksOfTheColumn ==
  kernel = "SeedA" =>
    /\ \A b \in DOMAIN dstIds : \A g \in Writers(b) : g % NX = b % NX
    /\ gridDim <= NX => \A b \in DOMAIN dstIds : Cardinality(Writers(b)) <= 1
    /\ \A w \in wlog : \A v \in wlog :
         (w.index = v.index /\ w.by # v.by) => dstIds[w.index \div tmpl.maxOut] > tmpl.maxOut

C19_Witness ==
  /\ SeedDone /\ kernel = "SeedA" /\ gridDim = NX2
  /\ \E b \in DOMAIN dstIds : Cardinality(Writers(b)) = NX2 \div NX /\ dstIds[b] <= tmpl.maxOut


----------------------------------------------------------------------------
(* The edge form of each stage's input.                                     *)

\* The element the constructor sizes the buffers with:
\* sizeA = ROW_EDGES_A * NX * (selected == 0 && tp.expand > 0 ? sizeof(u32) : sizeof(uint2));
\* sizeB = ROW_EDGES_B * NX * (selected == 0 && tp.expand > 1 ? sizeof(u32) : sizeof(uint2));
ElementA(sel, exp) == IF sel = 0 /\ exp > 0 THEN "u32" ELSE "uint2"
ElementB(sel, exp) == IF sel = 0 /\ exp > 1 THEN "u32" ELSE "uint2"

\* The form a launch writes; Tail writes packed edges (uint2 * destination).
FormWritten(c) == IF c.kernel = "Tail" THEN "uint2" ELSE c.tmpl.EdgeOut

\* C21: for every variant and expand in {0, 1, 2}, each stage of trim()
\* reads its input buffer in the edge form in which the preceding stage wrote
\* it, and sizeA and sizeB are computed with the element size of what the
\* seeding stages and round 0 write.
C21_FormsPropagate ==
  kernel = "host" =>
    /\ \A k \in DOMAIN calls : \A j \in DOMAIN calls :
         (IsLaunch(k) /\ IsLaunch(j) /\ Stage(calls[j].call) = Stage(calls[k].call) + 1)
           => calls[j].call.tmpl.EdgeIn = FormWritten(calls[k].call)
    /\ \A k \in DOMAIN calls :
         /\ calls[k].call.kernel \in {"SeedA", "SeedB"}
              => FormWritten(calls[k].call) = ElementA(selected, expand)
         /\ (calls[k].call.kernel = "Round" /\ calls[k].call.rnd = 0)
              => /\ calls[k].call.tmpl.EdgeIn = ElementA(selected, expand)
                 /\ FormWritten(calls[k].call) = ElementB(selected, expand)
         /\ (calls[k].call.kernel = "Round" /\ calls[k].call.rnd = 1)
              => calls[k].call.tmpl.EdgeIn = ElementB(selected, expand)

C21_Witness ==
  /\ kernel = "host" /\ host.state = "returned" /\ selected = 0 /\ expand = 2
  /\ \E k \in DOMAIN calls : /\ calls[k].call.kernel = "Round" /\ calls[k].call.rnd = 1
                             /\ calls[k].call.tmpl.EdgeIn = "u32"
                             /\ calls[k].call.tmpl.EdgeOut = "uint2"


----------------------------------------------------------------------------
(* The counters at each launch.                                             *)

\* The counters that may be non-zero once the first k calls have been made:
\* cudaMalloc hands out memory that holds anything (as does an earlier call
\* of trim()), a launch adds to the counters of its destination, and a
\* cudaMemset that succeeds zeroes its array.
RECURSIVE NonZeroAfter(_)
NonZeroAfter(k) ==
  IF k = 0 THEN {}
  ELSE LET c == calls[k].call
           cells == CounterCells(c.dstIds)
       IN  IF c.op = "cudaMemset"
           THEN IF calls[k].status = "ok" THEN NonZeroAfter(k - 1) \ cells
                ELSE NonZeroAfter(k - 1)
           ELSE IF c.op \in {"cudaMalloc", "launch"} THEN NonZeroAfter(k - 1) \cup cells
           ELSE NonZeroAfter(k - 1)

MemsetsSucceeded ==
  \A k \in DOMAIN calls : calls[k].call.op = "cudaMemset" => calls[k].status = "ok"

----------------------------------------------------------------------------
(* The bytes of the one allocation that holds buffers A, B and AB, in units  *)
(* of sizeof(u32).  The capacities and NA are defined outside this source:  *)
(* they are taken so that the capacities of the rounds step down,           *)
(* EDGES_B/2 > EDGES_A/4 > EDGES_B/4, and so that a Seed B sub-range is     *)
(* no larger than the sizeB/NB bytes in front of buffer AB when packed.     *)

LayoutGeometries ==
  {[a |-> 12, b |-> 8, na |-> 4], [a |-> 24, b |-> 16, na |-> 4], [a |-> 20, b |-> 12, na |-> 4]}

\* sizeof(EdgeForm) / sizeof(u32)
Words(form) == IF form = "u32" THEN 1 ELSE 2

\* The constructor: sizeA, sizeB, bufferSize and the three pointers, bufferA
\* being offset 0.
\*   sizeA = ROW_EDGES_A * NX * (...); sizeB = ROW_EDGES_B * NX * (...);
\*   bufferSize = sizeA + sizeB / NB;
\*   bufferB = bufferA + (bufferSize - sizeB); bufferAB = bufferA + sizeB / NB;
Layout(sel, exp, g) ==
  LET sizeA == g.a * NX2 * Words(ElementA(sel, exp))
      sizeB == g.b * NX2 * Words(ElementB(sel, exp))
  IN  [sizeA |-> sizeA, sizeB |-> sizeB, bufferSize |-> sizeA + sizeB \div NB,
       A |-> 0, B |-> sizeA + sizeB \div NB - sizeB, AB |-> sizeB \div NB]

\* The words from + lo .. from + hi - 1.
Range(from, lo, hi) == {from + o : o \in lo .. hi - 1}

\* The launches of trim() up to round 5 and Tail, each with the words it
\* reads and the words it may write: a Seed B or round-0 launch its
\* sub-range, a later launch NX2 buckets of its capacity in packed form.
LayoutLaunches(sel, exp, g) ==
  LET L == Layout(sel, exp, g)
      lap(k, st, from, n, to, m) ==
        [kernel |-> k, stage |-> st, reads |-> Range(from, 0, n), writes |-> Range(to, 0, m)]
      packed(cap) == NX2 * cap * 2
  IN  <<[kernel |-> "SeedA", stage |-> 0, reads |-> {}, writes |-> Range(L.AB, 0, L.sizeA)]>>
      \o [k \in 1 .. g.na |->
            LET qA == L.sizeA \div g.na
            IN  [kernel |-> "SeedB", stage |-> 1,
                 reads |-> Range(L.AB, (k - 1) * qA, k * qA),
                 writes |-> Range(L.A, (k - 1) * qA, k * qA)]]
      \o [k \in 1 .. NB |->
            LET i == NB - k
                qA == L.sizeA \div NB
                qB == L.sizeB \div NB
            IN  [kernel |-> "Round", stage |-> 2,
                 reads |-> Range(L.A, i * qA, (i + 1) * qA),
                 writes |-> Range(L.B, i * qB, (i + 1) * qB)]]
      \o <<lap("Round", 3, L.B, L.sizeB, L.A, packed(g.b \div 2)),
           lap("Round", 4, L.A, packed(g.b \div 2), L.B, packed(g.a \div 4)),
           lap("Round", 5, L.B, packed(g.a \div 4), L.A, packed(g.b \div 4)),
           lap("Round", 6, L.A, packed(g.b \div 4), L.B, packed(g.b \div 4)),
           lap("Round", 7, L.B, packed(g.b \div 4), L.A, packed(g.b \div 4)),
           lap("Tail", 8, L.A, packed(g.b \div 4), L.B, packed(g.b \div 4))>>

LayoutInit ==
  /\ kernel = "layout"
  /\ \E sel \in 0 .. 1, exp \in 0 .. 2, g \in LayoutGeometries :
       /\ selected = sel /\ expand = exp /\ tp = g
  /\ calls = <<>> /\ host = <<>>
  /\ graph = <<>> /\ sipkeys = <<0, 0, 0, 0>>
  /\ gridDim = 0 /\ blockDim = 0 /\ round = 0 /\ tmpl = <<>>
  /\ src = <<>> /\ srcIds = <<>> /\ dst = <<>> /\ dstIds = <<>>
  /\ ecounters = <<>> /\ tmp = <<>> /\ counters = <<>> /\ nonces = <<>> /\ recoveredges = <<>>
  /\ destIdx = <<>> /\ pc = <<>> /\ loc = <<>>
  /\ nedges = 0 /\ returned = <<>> /\ input = <<>> /\ counted = <<>> /\ wlog = {}

\* The next launch of trim() runs.
LayoutLaunch ==
  /\ kernel = "layout"
  /\ Len(calls) < Len(LayoutLaunches(selected, expand, tp))
  /\ calls' = Append(calls, LayoutLaunches(selected, expand, tp)[Len(calls) + 1])
  /\ UNCHANGED <<cfgVars, memVars, shVars, thVars, tp, nedges, returned, input, host, histVars>>

SpecLayout == LayoutInit /\ [][LayoutLaunch]_vars

\* The words that hold data a launch at position j or later has yet to read
\* when the launch at position j runs: what the launches before j have
\* written for the stage of j (the rest of its own input and of the launches
\* of its stage still to come) and for the stage after it.
PendingInput(j) ==
  LET written(st) == UNION {calls[k].writes : k \in {i \in 1 .. j - 1 : calls[i].stage = st}}
      all == LayoutLaunches(selected, expand, tp)
      toRead == UNION {all[k].reads : k \in {i \in j .. Len(all) : all[i].stage = calls[j].stage}}
  IN  (written(calls[j].stage - 1) \cap toRead) \cup written(calls[j].stage)

\* C23: with buffers B and AB aliased inside allocation A, no launch of
\* trim() writes a byte range that still holds input yet to be read by that
\* launch or by a later one, for every expand mode, and every launch stays
\* inside the allocation.
C23_NoLaunchOverwritesPendingInput ==
  (kernel = "layout" /\ Len(calls) > 0) =>
    /\ calls[Len(calls)].writes \cap PendingInput(Len(calls)) = {}
    /\ calls[Len(calls)].writes \subseteq 0 .. Layout(selected, expand, tp).bufferSize - 1


----------------------------------------------------------------------------
\* The part of Round a thread is in: zeroing the bitmap up to the first
\* barrier (0), counting up to the second (1), reading the counters (2).
RoundPhase(t) ==
  IF pc[t] \in {"zero", "sync1"} THEN 0
  ELSE IF pc[t] \in {"count", "count2", "sync2"} THEN 1 ELSE 2

----------------------------------------------------------------------------
(* The nonces one Seed A launch goes through, thread after thread: which    *)
(* nonce a thread takes does not depend on the schedule.                    *)

\* Blocks and threads per block of tp.genA explored.
MaxGenA == 4

CoverInit ==
  /\ kernel = "cover"
  /\ \E sel \in 0 .. 1, gd \in 1 .. MaxGenA, bd \in 1 .. MaxGenA :
       /\ selected = sel /\ gridDim = gd /\ blockDim = bd
  /\ counted = [n \in 0 .. NEDGES - 1 |-> 0]
  /\ input = <<0, 0>>
  /\ graph = <<>> /\ sipkeys = <<0, 0, 0, 0>> /\ expand = 0
  /\ round = 0 /\ tmpl = <<>>
  /\ src = <<>> /\ srcIds = <<>> /\ dst = <<>> /\ dstIds = <<>>
  /\ ecounters = <<>> /\ tmp = <<>> /\ counters = <<>> /\ nonces = <<>> /\ recoveredges = <<>>
  /\ destIdx = <<>> /\ pc = <<>> /\ loc = <<>>
  /\ tp = <<>> /\ nedges = 0 /\ returned = <<>> /\ calls = <<>> /\ host = <<>> /\ wlog = {}

\* All threads have left their loop.
CoverDone == input[1] >= gridDim * blockDim

\* Thread input[1] hashes and routes the nonce of its iteration input[2]
\* (atomicAdd(counters + row, 1)), or leaves its loop.
CoverStep ==
  /\ kernel = "cover" /\ ~CoverDone
  /\ LET t == <<input[1] \div blockDim, input[1] % blockDim>>
         n == SeedANonce(t, input[2])
     IN  IF input[2] < SeedIterations(t)
         THEN /\ counted' = [m \in DOMAIN counted |->
                               IF m = n THEN counted[m] + 1 ELSE counted[m]]
              /\ input' = <<input[1], input[2] + 1>>
         ELSE /\ input' = <<input[1] + 1, 0>>
              /\ UNCHANGED counted
  /\ UNCHANGED <<cfgVars, memVars, shVars, thVars, tp, nedges, returned, calls, host, wlog>>

SpecCover == CoverInit /\ [][CoverStep]_vars

\* C25 as stated: after a Seed A launch every nonce in [0, NEDGES) has been
\* hashed and routed exactly once, for every geometry of genA and in both
\* variants.
C25_EveryNonceOnce ==
  (kernel = "cover" /\ CoverDone) => \A n \in DOMAIN counted : counted[n] = 1

\* C25 (amended): every nonce in [0, NEDGES) is hashed and routed exactly
\* once when the threads of the launch divide NEDGES and, in Cuckaroo mode,
\* the nonces per thread are a multiple of the block of nonces.
C25_EveryNonceOnceWhenThreadsDivide ==
  (/\ kernel = "cover" /\ CoverDone
   /\ SeedALoops * gridDim * blockDim = NEDGES
   /\ selected # 0 => SeedALoops % EDGE_BLOCK_SIZE = 0) =>
    \A n \in DOMAIN counted : counted[n] = 1

\* A Cuckaroo launch of two blocks of two threads, one block of nonces per
\* thread, has gone through all its nonces.
C25_Witness ==
  /\ kernel = "cover" /\ CoverDone
  /\ selected # 0 /\ gridDim = 2 /\ blockDim = 2
  /\ SeedALoops = EDGE_BLOCK_SIZE
  /\ \A n \in DOMAIN counted : counted[n] = 1


----------------------------------------------------------------------------
\* The slots of destination bucket b that hold an edge after the launch: the
\* first min(count, maxOut).
RoundLiveOut(b) ==
  {b * tmpl.maxOut + k : k \in 0 .. Min(dstIds[b], tmpl.maxOut) - 1}

\* C26: every edge Round k keeps is written into the bucket of its other
\* endpoint, endpoint((k&1)^1) >> ZBITS, and once the launch has ended every
\* live edge of destination bucket b has endpoint((k&1)^1) >> ZBITS = b, in
\* the form the round stores it (nonce or node pair).
C26_RoundRoutesByOtherEndpoint ==
  kernel = "Round" =>
    /\ \A t \in DOMAIN pc :
         pc[t] = "store" =>
           /\ loc[t].bucket =
                endpoint(tmpl.EdgeIn, src[srcIndex(t, loc[t].i, loc[t].loop)],
                         1 - (round % 2)) \div NZ
           /\ loc[t].bucket = endpoint(tmpl.EdgeOut, loc[t].edge, 1 - (round % 2)) \div NZ
    /\ \A w \in wlog :
         endpoint(tmpl.EdgeOut, dst[w.index], 1 - (round % 2)) \div NZ = w.index \div tmpl.maxOut
    /\ (\A t \in DOMAIN pc : pc[t] = "done") =>
         \A b \in 0 .. NX2 - 1 : \A x \in RoundLiveOut(b) :
           endpoint(tmpl.EdgeOut, dst[x], 1 - (round % 2)) \div NZ = b

\* An odd round that turns nonces into node pairs has ended with edges in
\* two destination buckets, one of them other than the bucket it was read
\* from.
C26_Witness ==
  /\ kernel = "Round" /\ round % 2 = 1
  /\ tmpl.EdgeIn = "u32" /\ tmpl.EdgeOut = "uint2"
  /\ \A t \in DOMAIN pc : pc[t] = "done"
  /\ \E b, c \in 0 .. NX2 - 1 : b # c /\ RoundLiveOut(b) # {} /\ RoundLiveOut(c) # {}
  /\ \E b \in 0 .. NX2 - 1 : \E x \in RoundLiveOut(b) :
       endpoint("uint2", dst[x], round % 2) \div NZ # b


----------------------------------------------------------------------------
\* C27: the input capacity (maxIn) each stage of trim() is launched with is
\* the output capacity (maxOut) of the stage before it: EDGES_A from Seed A
\* to Seed B and to round 0, EDGES_B/NB to round 1, EDGES_B/2 to round 2,
\* EDGES_A/4 to round 3, EDGES_B/4 to every later round and to Tail; the
\* same holds of the template arguments for capacities that are all
\* different.
C27_CapacitiesChain ==
  kernel = "host" =>
    /\ \A k \in DOMAIN calls : \A j \in DOMAIN calls :
         (IsLaunch(k) /\ IsLaunch(j) /\ Stage(calls[j].call) = Stage(calls[k].call) + 1)
           => calls[j].call.tmpl.maxIn = calls[k].call.tmpl.maxOut
    /\ \A k \in DOMAIN calls :
         (IsLaunch(k) /\ calls[k].call.kernel = "Round") =>
           /\ calls[k].call.tmpl.maxIn =
                RoundCapacity(calls[k].call.rnd, EDGES_A, EDGES_B).maxIn
           /\ calls[k].call.tmpl.maxOut =
                RoundCapacity(calls[k].call.rnd, EDGES_A, EDGES_B).maxOut
    /\ \A g \in LayoutGeometries : \A rnd \in 0 .. MaxTrims :
         /\ RoundCapacity(rnd + 1, g.a, g.b).maxIn = RoundCapacity(rnd, g.a, g.b).maxOut
         /\ RoundCapacity(0, g.a, g.b).maxIn = g.a

\* trim() has returned after six rounds and Tail, each launched with the
\* capacity the stage before it wrote.
C27_Witness ==
  /\ kernel = "host" /\ host.state = "returned" /\ tp.ntrims > 4
  /\ \E k \in DOMAIN calls : /\ calls[k].call.kernel = "Tail"
                             /\ calls[k].call.tmpl.maxIn = EDGES_B \div 4
  /\ \E k \in DOMAIN calls : /\ calls[k].call.kernel = "Round" /\ calls[k].call.rnd = 3
                             /\ calls[k].call.tmpl.maxIn = EDGES_A \div 4
                             /\ calls[k].call.tmpl.maxOut = EDGES_B \div 4
  /\ \E k \in DOMAIN calls : /\ calls[k].call.kernel = "Round" /\ calls[k].call.rnd = 5
                             /\ calls[k].call.tmpl.maxIn = EDGES_B \div 4


----------------------------------------------------------------------------
(* synapse.ReadImage: the bytes of an input file, halved.                   *)

\* data[i] = uint8(v) / 2
HalveByte(v) == (v % 256) \div 2

\* The file to read: any one byte, or two bytes from either end of the range.
ImageInit ==
  /\ kernel = "ReadImage"
  /\ input \in {<<v>> : v \in 0 .. 255} \cup {<<v, w>> : v, w \in {0, 1, 254, 255}}
  /\ returned = <<>>
  /\ graph = <<>> /\ sipkeys = <<0, 0, 0, 0>> /\ selected = 0 /\ expand = 0
  /\ gridDim = 0 /\ blockDim = 0 /\ round = 0 /\ tmpl = <<>>
  /\ src = <<>> /\ srcIds = <<>> /\ dst = <<>> /\ dstIds = <<>>
  /\ ecounters = <<>> /\ tmp = <<>> /\ counters = <<>> /\ nonces = <<>> /\ recoveredges = <<>>
  /\ destIdx = <<>> /\ pc = <<>> /\ loc = <<>>
  /\ tp = <<>> /\ nedges = 0 /\ calls = <<>> /\ host = <<>> /\ counted = <<>> /\ wlog = {}

\* ReadImage(inputFilePath): an error of NewFileReader or GetBytes is
\* returned with no data; otherwise every byte of the data is halved in place
\* and the data returned.
ReadImage ==
  /\ kernel = "ReadImage" /\ returned = <<>>
  /\ \E err \in BOOLEAN :
       returned' = IF err THEN <<[data |-> <<>>, err |-> TRUE]>>
                   ELSE <<[data |-> [i \in DOMAIN input |-> HalveByte(input[i])],
                           err |-> FALSE]>>
  /\ UNCHANGED <<cfgVars, memVars, shVars, thVars, tp, nedges, input, calls, host, histVars>>

SpecImage == ImageInit /\ [][ReadImage]_vars

\* C28: every byte ReadImage returns lies in [0, 127), for every input byte
\* 0..255.
C28_ReturnedBytesBelow127 ==
  (kernel = "ReadImage" /\ returned # <<>>) =>
    \A i \in DOMAIN returned[1].data :
      returned[1].data[i] >= 0 /\ returned[1].data[i] < 127


----------------------------------------------------------------------------
\* C29: in round 1 (NP = NB) the fill count read for partition p of bucket g,
\* srcIds[p * NX2 + g] after p steps of srcIds += NX2, is the counter the
\* round-0 launch for partition p wrote for that bucket into its own index
\* array indexesE[1 + p], wherever cudaMalloc has put the arrays.
C29_Round1ReadsCountersOfItsPartition ==
  kernel = "host" =>
    \A k \in DOMAIN calls : \A j \in DOMAIN calls :
      (/\ IsLaunch(k) /\ calls[k].call.kernel = "Round" /\ calls[k].call.rnd = 1
       /\ IsLaunch(j) /\ calls[j].call.kernel = "Round" /\ calls[j].call.rnd = 0) =>
        \A g \in 0 .. TrimBlocks - 1 :
          host.indexesE[calls[k].call.srcIds[1]] + calls[k].call.srcIds[2]
              + calls[j].call.part * NX2 + g
            = host.indexesE[calls[j].call.dstIds[1]] + calls[j].call.dstIds[2] + g


----------------------------------------------------------------------------
\* C30: in Seed B every thread of a block executes the same barriers in
\* every iteration of the loop, whatever the bucket holds, null entries
\* included: two threads of a block that wait at a barrier wait at the same
\* barrier of the same iteration, and no thread has left the loop while
\* another thread of its block waits at a barrier of the loop.
C30_SeedBThreadsMeetAtSameBarrier ==
  kernel = "SeedB" =>
    \A g \in 0 .. gridDim - 1 : \A t, u \in BlockThreads(g) :
      pc[t] \in {"sync1", "sync2"} =>
        /\ pc[u] \in {"sync1", "sync2"} => (pc[u] = pc[t] /\ loc[u].i = loc[t].i)
        /\ pc[u] \in {"add", "reserve", "store"} => loc[u].i = loc[t].i
        /\ pc[u] \notin {"final", "fstore", "done"}


----------------------------------------------------------------------------
(* What the tiles of the seed kernels take in and what reaches the buckets. *)

\* The iterations of the launch that stage an edge in a tile (the atomicAdd
\* on counters and the store into tmp), as <<thread, iteration>>.
SeedStagings ==
  {x \in (DOMAIN pc) \X (0 .. NEDGES) :
     /\ x[2] < SeedIterations(x[1])
     /\ SeedStaged(x[1], x[2]).some
     /\ ~(kernel = "SeedB" /\ null(tmpl.EdgeOut, SeedStaged(x[1], x[2]).edge))}

\* The slots of the destination below the bucket counters.
SeedLiveOut ==
  {x \in DOMAIN dst : x % tmpl.maxOut < Min(dstIds[x \div tmpl.maxOut], tmpl.maxOut)}

\* No tile has lost an entry to its own overflow and no bucket counter has
\* passed the capacity.
SeedNothingOverflowed ==
  /\ \A w \in wlog : w.lost = 0
  /\ \A g \in 0 .. gridDim - 1 : \A r \in 0 .. NX - 1 : counters[g][r] <= FLUSH2
  /\ \A b \in DOMAIN dstIds : dstIds[b] <= tmpl.maxOut

\* C31: in Seed A and Seed B every tile holds fewer than FLUSH entries when
\* the threads of its block start an iteration of the loop, and, when no
\* tile and no bucket has overflowed, a finished launch has stored every
\* edge staged in a tile exactly once in the buckets and each bucket counter
\* is the number of edges stored in the bucket.
C31_TilesDrainWithoutLossOrDuplicate ==
  kernel \in {"SeedA", "SeedB"} =>
    /\ \A g \in 0 .. gridDim - 1 :
         (\A t \in BlockThreads(g) : pc[t] = "add") =>
           \A r \in 0 .. NX - 1 : counters[g][r] < FLUSH
    /\ ((\A t \in DOMAIN pc : pc[t] = "done") /\ SeedNothingOverflowed) =>
         /\ \A x \in SeedStagings :
              LET e == SeedStaged(x[1], x[2]).edge
              IN  Cardinality({y \in SeedLiveOut : dst[y] = e})
                    = Cardinality({y \in SeedStagings : SeedStaged(y[1], y[2]).edge = e})
         /\ \A b \in DOMAIN dstIds :
              /\ dstIds[b] = Cardinality({w.index : w \in {v \in wlog : v.index \div tmpl.maxOut = b}})
              /\ \A w \in wlog : ~w.again
         /\ Cardinality(SeedLiveOut) = Cardinality(SeedStagings)


----------------------------------------------------------------------------
(* torrentfs.Monitor: the goroutine of listenLatestBlock with the scans of   *)
(* syncLastBlock, and a caller of Stop.  host holds the fields of the        *)
(* Monitor and the state of its collaborators, pc the position of the two   *)
(* goroutines, loc the locals of the scan, counted the block numbers the    *)
(* scan in progress has dealt with, input what is remembered of the past.   *)

\* params.SeedingBlks (package params), batch and the literal 2048 of the
\* rollback branch, scaled down to the block numbers explored.
SeedingBlks == 6
batch == 2
RollbackSpan == 2

\* The chain heads the node reports: 0 .. MaxHead.
MaxHead == 8

MonitorInit ==
  /\ kernel = "monitor"
  /\ \E l0 \in {0, MaxHead \div 2} :
       host = [lastNumber |-> l0, terminated |-> 0, exitCh |-> "open", timer |-> FALSE,
               fsClosed |-> 0, dlClosed |-> 0]
  /\ pc = [listen |-> "select", stop |-> "idle"]
  /\ loc = [currentNumber |-> 0, minNumber |-> 0, maxNumber |-> 0, i |-> 0]
  /\ counted = {}
  /\ input = [headsAbove |-> TRUE, update |-> <<>>, started |-> FALSE]
  /\ graph = <<>> /\ sipkeys = <<0, 0, 0, 0>> /\ selected = 0 /\ expand = 0
  /\ gridDim = 0 /\ blockDim = 0 /\ round = 0 /\ tmpl = <<>>
  /\ src = <<>> /\ srcIds = <<>> /\ dst = <<>> /\ dstIds = <<>>
  /\ ecounters = <<>> /\ tmp = <<>> /\ counters = <<>> /\ nonces = <<>> /\ recoveredges = <<>>
  /\ destIdx = <<>>
  /\ tp = <<>> /\ nedges = 0 /\ returned = <<>> /\ calls = <<>> /\ wlog = {}

MonitorFrame ==
  UNCHANGED <<cfgVars, memVars, shVars, tp, nedges, returned, calls, wlog>>

\* The timer set by time.NewTimer or timer.Reset expires.
TimerFires ==
  /\ kernel = "monitor" /\ pc.listen = "select" /\ ~host.timer
  /\ host' = [host EXCEPT !.timer = TRUE]
  /\ UNCHANGED <<pc, loc, counted, input>>
  /\ MonitorFrame

\* select { case <-timer.C: m.syncLastBlock() ... }: the expired timer is one
\* of the ready cases and is the one chosen.
ListenTimer ==
  /\ kernel = "monitor" /\ pc.listen = "select" /\ host.timer
  /\ host' = [host EXCEPT !.timer = FALSE]
  /\ pc' = [pc EXCEPT !.listen = "head"]
  /\ input' = [input EXCEPT !.started = @ \/ host.exitCh = "closed"]
  /\ UNCHANGED <<loc, counted>>
  /\ MonitorFrame

\* select { ... case <-m.exitCh: return }
ListenExit ==
  /\ kernel = "monitor" /\ pc.listen = "select" /\ host.exitCh = "closed"
  /\ pc' = [pc EXCEPT !.listen = "returned"]
  /\ UNCHANGED <<host, loc, counted, input>>
  /\ MonitorFrame

\* syncLastBlock up to its loop: eth_blockNumber fails, or reports the head
\* currentNumber, from which minNumber and maxNumber are set.
SyncHead ==
  /\ kernel = "monitor" /\ pc.listen = "head"
  /\ \E err \in BOOLEAN, currentNumber \in 0 .. MaxHead :
       LET m0 == IF host.lastNumber > currentNumber /\ host.lastNumber > RollbackSpan
                 THEN host.lastNumber - RollbackSpan
                 ELSE host.lastNumber + 1
           x0 == IF currentNumber > SeedingBlks \div 2 THEN currentNumber - 3 ELSE 0
           x1 == IF x0 > batch + m0 THEN m0 + batch ELSE x0
       IN  IF err \/ currentNumber <= 0
           THEN /\ pc' = [pc EXCEPT !.listen = "select"]
                /\ UNCHANGED <<loc, counted, input>>
           ELSE /\ pc' = [pc EXCEPT !.listen = "scan"]
                /\ loc' = [currentNumber |-> currentNumber, minNumber |-> m0,
                           maxNumber |-> x1, i |-> m0]
                /\ counted' = {}
                /\ input' = [input EXCEPT
                               !.headsAbove = @ /\ currentNumber >= host.lastNumber]
  /\ UNCHANGED host
  /\ MonitorFrame

\* for i := minNumber; i <= maxNumber; i++ { if terminated == 1 { break } ...
\* and, once the loop is left, m.lastNumber = maxNumber.
ScanStep ==
  /\ kernel = "monitor" /\ pc.listen = "scan"
  /\ IF loc.i <= loc.maxNumber /\ host.terminated # 1
     THEN /\ pc' = [pc EXCEPT !.listen = "block"]
          /\ UNCHANGED <<host, input>>
     ELSE /\ pc' = [pc EXCEPT !.listen = "select"]
          /\ host' = [host EXCEPT !.lastNumber = loc.maxNumber]
          /\ input' = [input EXCEPT
                         !.update = [old |-> host.lastNumber, new |-> loc.maxNumber,
                                     done |-> counted]]
  /\ UNCHANGED <<loc, counted>>
  /\ MonitorFrame

\* The body of the loop for block i: the block is taken from the storage or
\* fetched (rpcBlockByNumber), parsed (parseBlockTorrentInfo) and, when it
\* was fetched, stored (WriteBlock); an error of any of these returns.
ScanBlock ==
  /\ kernel = "monitor" /\ pc.listen = "block"
  /\ \E outcome \in {"ok", "fetch", "parse", "store"} :
       IF outcome = "ok"
       THEN /\ counted' = counted \cup {loc.i}
            /\ loc' = [loc EXCEPT !.i = @ + 1]
            /\ pc' = [pc EXCEPT !.listen = "scan"]
       ELSE /\ pc' = [pc EXCEPT !.listen = "select"]
            /\ UNCHANGED <<loc, counted>>
  /\ UNCHANGED <<host, input>>
  /\ MonitorFrame

\* Stop(), called once: atomic.StoreInt32(&m.terminated, 1); close(m.exitCh);
\* m.fs.Close(); m.dl.Close(), one statement at a time.
Stop ==
  /\ kernel = "monitor" /\ pc.stop # "done"
  /\ \/ /\ pc.stop = "idle"
        /\ host' = [host EXCEPT !.terminated = 1]
        /\ pc' = [pc EXCEPT !.stop = "close"]
     \/ /\ pc.stop = "close"
        /\ host' = [host EXCEPT !.exitCh = "closed"]
        /\ pc' = [pc EXCEPT !.stop = "fs"]
     \/ /\ pc.stop = "fs"
        /\ host' = [host EXCEPT !.fsClosed = @ + 1]
        /\ pc' = [pc EXCEPT !.stop = "dl"]
     \/ /\ pc.stop = "dl"
        /\ host' = [host EXCEPT !.dlClosed = @ + 1]
        /\ pc' = [pc EXCEPT !.stop = "done"]
  /\ UNCHANGED <<loc, counted, input>>
  /\ MonitorFrame

MonitorNext ==
  \/ TimerFires
  \/ ListenTimer
  \/ ListenExit
  \/ SyncHead
  \/ ScanStep
  \/ ScanBlock
  \/ Stop

SpecMonitor == MonitorInit /\ [][MonitorNext]_vars

\* C32: over calls of syncLastBlock in which the head the node reports never
\* lies below lastNumber, lastNumber never decreases and moves to a value L
\* only when every block number from the old lastNumber + 1 to L has been
\* fetched, parsed and stored without error in that call.
C32_LastNumberAdvancesOverProcessedBlocks ==
  (kernel = "monitor" /\ input.headsAbove /\ input.update # <<>>) =>
    /\ input.update.new >= input.update.old
    /\ \A n \in input.update.old + 1 .. input.update.new : n \in input.update.done


----------------------------------------------------------------------------
\* The goroutines are scheduled: a goroutine that can take a step takes one,
\* Stop() runs to its end once called, and a select with a closed exitCh among
\* its ready cases, made again and again, chooses it at some time.
SpecMonitorFair ==
  /\ SpecMonitor
  /\ SF_vars(ListenExit)
  /\ WF_vars(SyncHead) /\ WF_vars(ScanStep) /\ WF_vars(ScanBlock)
  /\ WF_vars(Stop /\ pc.stop # "idle")

\* Stop() has closed the file storage and the torrent manager once each, and
\* nothing else closes them.
ClosedOnce ==
  /\ host.fsClosed <= 1 /\ host.dlClosed <= 1
  /\ pc.stop = "done" => (host.fsClosed = 1 /\ host.dlClosed = 1)

\* C33 as stated: once Stop() has been called the loop of listenLatestBlock
\* returns at some time, no syncLastBlock scan is started any more, a scan
\* in progress takes up no further block number, and the file storage and
\* the torrent manager are closed exactly once.
C33_StopEndsListeningAndScanning ==
  /\ (kernel = "monitor" /\ pc.stop # "idle") ~> (pc.listen = "returned")
  /\ [](kernel = "monitor" => (~input.started /\ ClosedOnce))
  /\ [][(kernel = "monitor" /\ pc.listen = "scan" /\ pc'.listen = "block")
          => host.terminated = 0]_vars

\* What the code does ensure once Stop() has been called, whether or not a
\* syncLastBlock call is started afterwards: the loop of listenLatestBlock
\* returns at some time, no block number is taken up once m.terminated is
\* set, and the file storage and the torrent manager are closed once each.
StopEndsBlockProcessing ==
  /\ (kernel = "monitor" /\ pc.stop # "idle") ~> (pc.listen = "returned")
  /\ [](kernel = "monitor" => ((input.started => pc.listen # "block") /\ ClosedOnce))
  /\ [][(kernel = "monitor" /\ pc.listen = "scan" /\ pc'.listen = "block")
          => host.terminated = 0]_vars

====
